---- MODULE Spec2Model ----
(***************************************************************************)
(* Mindspire: Gmail incremental sync (poll_gmail) -- cursor, token          *)
(* lifecycle, reauth flag and invite dedup/merge, as a state machine.       *)
(*                                                                          *)
(* Two handler invocations (Procs) may run at once; every await that        *)
(* touches the database or the provider is one step.                        *)
(***************************************************************************)
EXTENDS Naturals, Sequences, FiniteSets, TLC

\* ------------------------------------------------------------------ bounds
MaxPasses == 2      \* handler invocations in one behaviour
MaxFaults == 2      \* provider / store failures injected in one behaviour
MaxReauth == 1      \* external re-authentications in one behaviour
PageSize == 1       \* change-stream entries per page

\* --------------------------------------------------------------- universe
Procs == {"p1", "p2"}
ProcRank(p) == IF p = "p1" THEN 1 ELSE 2
Users == {"u1", "u2"}
SortedUsers == <<"u1", "u2">>
NoUser == "none"
Msgs == {"m1", "m2"}
\* with a third message, whose extraction lacks the title
AllMsgs == Msgs \cup {"m3"}
\* with a reply to the digest, sent by u2
LoopMsgs == Msgs \cup {"m4"}

\* app_user.partner_user_id
Partner(u) == CASE u = "u1" -> "u2" [] u = "u2" -> "u1" [] OTHER -> NoUser

\* the provider's message: thread, To/Cc/Bcc recipients among the users,
\* and whether the extraction of its text is complete
MsgThread(m) == CASE m = "m3" -> "t2" [] m = "m4" -> "t3" [] OTHER -> "t1"
MsgRecipients(m) ==
  CASE m = "m2" -> {"u1", "u2"} [] m = "m4" -> {} [] OTHER -> {"u1"}

\* parsed.invite_id: the reference id the extraction gave the message
ParsedInviteId(m) == IF m = "m1" THEN "1A" ELSE "2B"

\* parseInviteWithGemini: the extraction of the message; that of m3 has no
\* title
ParseInvite(m) ==
  [invite_id |-> ParsedInviteId(m),
   title |-> IF m = "m3" THEN "" ELSE "title",
   summary |-> "summary"]

\* variant: the title is not looked at
ExtractionCompleteIgnoresTitle(invite) ==
  ~(invite.invite_id = "" \/ invite.summary = "")

\* !(!invite.invite_id || !invite.title || !invite.summary)
ExtractionComplete(invite) ==
  ~(invite.invite_id = "" \/ invite.title = "" \/ invite.summary = "")

MsgComplete(m) == ExtractionComplete(ParseInvite(m))

\* the user who sent the message (From), when one of the users; a sent
\* message is in the sender's mailbox with the SENT label
MsgSender(m) == IF m = "m4" THEN "u2" ELSE NoUser

\* subject includes "mindspire digest", or To is the notifications address
MsgDigestSubject(m) == m = "m4"

\* (isDigestReply || isDigestRecipient) && isFromUser && isSentMessage
IsDigestReply(u, m) == MsgDigestSubject(m) /\ MsgSender(m) = u

VARIABLES
  cred,          \* user_credentials: needs_reauth, last_history_id (0 = null)
  tokenStore,    \* user_token: access, refresh (0 = null)
  refreshVault,  \* users whose credential row has a refresh-token vault id
  invites,       \* invite table, in insertion order
  mailbox,       \* provider: per user, the message ids in arrival order
  pass,          \* per handler invocation: its position and locals
  notified,      \* reauth notifications sent, per user
  faults,        \* failures injected so far
  passes,        \* handler invocations started so far
  reauths,       \* external re-authentications so far
  processed,     \* <<user, message>> refs whose processing inserted or merged
  lab            \* inputs and results of the pure-function specifications

vars == <<cred, tokenStore, refreshVault, invites, mailbox, pass, notified,
          faults, passes, reauths, processed, lab>>

\* ------------------------------------------------------------ sequences
Range(s) == {s[i] : i \in 1..Len(s)}

\* Set.add on an insertion-ordered Set
SetAdd(s, x) == IF x \in Range(s) THEN s ELSE Append(s, x)

RECURSIVE SetAddAll(_, _)
SetAddAll(s, xs) ==
  IF xs = <<>> THEN s ELSE SetAddAll(SetAdd(s, Head(xs)), Tail(xs))

\* new Set(array): insertion order, duplicates dropped
NewSet(arr) == SetAddAll(<<>>, arr)

Max(a, b) == IF a >= b THEN a ELSE b

\* ------------------------------------------------------------- provider
\* the mailbox's current historyId; record k is the arrival of mailbox[k]
HistoryIdOf(u) == Len(mailbox[u]) + 1

\* history.list: the records at or after startHistoryId (all when null)
FirstRecord(start) == Max(start, 1)

HistoryPage(u, start, pageToken) ==
  LET first == FirstRecord(start) + pageToken * PageSize
      last == first + PageSize - 1
      n == Len(mailbox[u])
  IN [refs |-> [k \in 1..(IF n >= first
                           THEN (IF n >= last THEN PageSize ELSE n - first + 1)
                           ELSE 0) |-> mailbox[u][first + k - 1]],
      historyId |-> HistoryIdOf(u),
      hasNext |-> n > last]

\* --------------------------------------------------------- pass locals
IdlePass ==
  [pc |-> "idle", queue |-> <<>>, dryRun |-> FALSE, backfill |-> FALSE,
   access |-> 0, refresh |-> 0, ctx |-> "none",
   attempt |-> 0, pageToken |-> 0, messageMap |-> <<>>,
   historyMessages |-> <<>>, hasHistory |-> FALSE,
   latestHistoryId |-> 0, requiresCursorReset |-> FALSE,
   idx |-> 0, relatedId |-> 0, merged |-> <<>>,
   refreshes401 |-> 0, startCursor |-> 0, maxWm |-> 0, baseline |-> 0,
   histStatus |-> "none", attempted |-> 0, msgError |-> "none",
   transient |-> "none", outcome |-> "none"]

\* the credential row being processed (loaded when the handler started)
Cur(p) == Head(pass[p].queue)
CurUser(p) == Cur(p).user_id

\* processUser entry: locals of one user's pass
BeginUser(r, queue) ==
  [IdlePass EXCEPT !.pc = "getTokens", !.queue = queue,
                   !.dryRun = r.dryRun, !.backfill = r.backfill,
                   !.latestHistoryId = Head(queue).last_history_id,
                   !.startCursor = cred[Head(queue).user_id].last_history_id]

\* processUser returned or threw: the outcome stays visible for one step
EndUser(r, outcome) ==
  [IdlePass EXCEPT !.pc = "userEnd", !.queue = r.queue,
                   !.dryRun = r.dryRun, !.backfill = r.backfill,
                   !.refreshes401 = r.refreshes401,
                   !.startCursor = r.startCursor, !.maxWm = r.maxWm,
                   !.baseline = r.baseline,
                   !.histStatus = r.histStatus, !.attempted = r.attempted,
                   !.msgError = r.msgError, !.transient = r.transient,
                   !.outcome = outcome]

Fault == faults < MaxFaults /\ faults' = faults + 1
NoFault == faults' = faults

\* ------------------------------------------------------- pure decisions
\* variant: every error of the refresh exchange flags
ShouldFlagReauthAnyError(err) == TRUE

\* shouldFlagReauth on the error updateAccessToken caught
ShouldFlagReauth(err) == err \in {"invalid_grant", "invalid_client", "401", "400"}

\* flagReauth: the guard on the row it re-read
FlagReauthSkips(row) == row.needs_reauth

\* the value flagReauth writes
FlagReauthValue == TRUE

\* variant: every error but the 401 re-baselines
HistoryCatchResetsOnAnyError(status) ==
  IF status = "401" THEN "refresh" ELSE "reset"

\* processUser's catch around loadHistoryMessages, first call
HistoryCatch(status) ==
  CASE status = "401" -> "refresh"
    [] status = "404" -> "reset"
    [] OTHER -> "throw"

\* variant: the catch also covers the call made inside it
OnHistoryErrorEveryAttempt(attempt, status) == HistoryCatch(status)

\* an error of loadHistoryMessages: the try/catch covers the first call only,
\* an error of the call made inside the catch leaves processUser
OnHistoryError(attempt, status) ==
  IF attempt = 1 THEN HistoryCatch(status) ELSE "throw"

\* variant: the whole row as loaded at the start of the handler is written
StoreCursorWholeRow(row, historyId) ==
  [needs_reauth |-> FALSE, last_history_id |-> historyId]

\* update({last_history_id}).eq("id", credential.id)
StoreCursor(row, historyId) == [row EXCEPT !.last_history_id = historyId]

\* loadHistoryMessages: if (page.historyId) latestHistoryId = page.historyId
LatestHistoryId(latest, page) ==
  IF page.historyId # 0 THEN page.historyId ELSE latest

\* latestHistoryId && latestHistoryId !== credential.last_history_id
CursorAdvances(latest, credential) ==
  latest # 0 /\ latest # credential.last_history_id

\* auth_callback: needs_reauth of the upserted credential row
NeedsReauthOnCallback(hasRefreshVault) == ~hasRefreshVault

\* where processUser goes once the sync step is over
AfterBackfillPc(r, credential) ==
  IF r.requiresCursorReset THEN "profile"
  ELSE IF ~r.hasHistory THEN "userEnd"
  ELSE IF Len(r.historyMessages) = 0
       THEN (IF CursorAdvances(r.latestHistoryId, credential)
             THEN "cursorWrite" ELSE "userEnd")
  ELSE "fetchMessage"

AfterSyncPc(r, credential) ==
  IF r.backfill THEN "backfill" ELSE AfterBackfillPc(r, credential)

\* move to the step named by pc; "userEnd" closes the user's pass
Goto(r, pc) ==
  IF pc = "userEnd" THEN EndUser(r, "ok")
  ELSE [r EXCEPT !.pc = pc, !.idx = IF pc = "fetchMessage" THEN 1 ELSE 0]

\* ----------------------------------------------------------------- init
InitSync ==
  /\ cred = [u \in Users |-> [needs_reauth |-> FALSE, last_history_id |-> 0]]
  /\ tokenStore = [u \in Users |-> [access |-> 0, refresh |-> 1]]
  /\ refreshVault = {"u1"}
  /\ invites = <<>>
  /\ mailbox = [u \in Users |-> <<>>]
  /\ pass = [p \in Procs |-> IdlePass]
  /\ notified = [u \in Users |-> 0]
  /\ faults = 0
  /\ passes = 0
  /\ reauths = 0
  /\ processed = {}

Init ==
  /\ InitSync
  /\ lab = [stage |-> "off"]

\* ---------------------------------------------------------- environment
\* a message arrives in the mailbox of each of its recipients
Delivered(m) == \E u \in Users : m \in Range(mailbox[u])

Deliver(m) ==
  /\ ~Delivered(m)
  /\ mailbox' = [u \in Users |->
                   IF u \in MsgRecipients(m) \cup {MsgSender(m)}
                   THEN Append(mailbox[u], m)
                   ELSE mailbox[u]]
  /\ UNCHANGED <<cred, tokenStore, refreshVault, invites, pass, notified,
                 faults, passes, reauths, processed, lab>>

\* authCallbackHandler: the user consents again; the credential row is
\* upserted with needs_reauth = !refreshTokenVaultId
AuthCallbackHandler(u, gotRefreshToken) ==
  /\ cred[u].needs_reauth
  /\ reauths < MaxReauth
  /\ reauths' = reauths + 1
  /\ refreshVault' = IF gotRefreshToken THEN refreshVault \cup {u}
                     ELSE refreshVault
  /\ cred' = [cred EXCEPT
               ![u].needs_reauth = NeedsReauthOnCallback(u \in refreshVault')]
  /\ UNCHANGED <<tokenStore, invites, mailbox, pass, notified, faults,
                 passes, processed, lab>>

\* -------------------------------------------------------------- handler
Bodies ==
  [userId : Users \cup {"all"}, dryRun : {FALSE}, backfill : {FALSE}]
  \cup {[userId |-> "u1", dryRun |-> TRUE, backfill |-> FALSE],
        [userId |-> "u2", dryRun |-> FALSE, backfill |-> TRUE]}

\* select ... .eq("needs_reauth", false).order("user_id"), then the userId filter
FilteredCredentials(body) ==
  LET keep(u) == /\ ~cred[u].needs_reauth
                 /\ (body.userId = "all" \/ body.userId = u)
      users == SelectSeq(SortedUsers, keep)
  IN [i \in 1..Len(users) |->
        [user_id |-> users[i],
         last_history_id |-> cred[users[i]].last_history_id]]

PollGmailHandler(p, body) ==
  /\ pass[p].pc = "idle"
  /\ \A q \in Procs : pass[q].pc = "idle" => ProcRank(p) <= ProcRank(q)
  /\ passes < MaxPasses
  /\ passes' = passes + 1
  /\ LET queue == FilteredCredentials(body)
     IN pass' = [pass EXCEPT ![p] =
                   IF queue = <<>> THEN IdlePass
                   ELSE BeginUser(body, queue)]
  /\ UNCHANGED <<cred, tokenStore, refreshVault, invites, mailbox, notified,
                 faults, reauths, processed, lab>>

\* the handler's loop: the next credential, or the response
NextCredential(p) ==
  /\ pass[p].pc = "userEnd"
  /\ LET rest == Tail(pass[p].queue)
     IN pass' = [pass EXCEPT ![p] =
                   IF rest = <<>> THEN IdlePass
                   ELSE BeginUser(pass[p], rest)]
  /\ UNCHANGED <<cred, tokenStore, refreshVault, invites, mailbox, notified,
                 faults, passes, reauths, processed, lab>>

\* ------------------------------------------------- token lifecycle steps
\* processUser: getTokenPair(...).catch(() => nulls), the missing-refresh
\* branch, and ensureAccessToken's choice
GetTokenPair(p) ==
  /\ pass[p].pc = "getTokens"
  /\ \E tokens \in {tokenStore[CurUser(p)], [access |-> 0, refresh |-> 0]} :
       /\ IF tokens = tokenStore[CurUser(p)] THEN NoFault ELSE Fault
       /\ pass' = [pass EXCEPT ![p] =
            IF tokens.refresh = 0
            THEN [@ EXCEPT !.pc = "flagRead", !.ctx = "missing"]
            ELSE IF tokens.access # 0
            THEN [@ EXCEPT !.pc = "history", !.attempt = 1,
                           !.access = tokens.access, !.refresh = tokens.refresh]
            ELSE [@ EXCEPT !.pc = "refresh", !.ctx = "ensure",
                           !.refresh = tokens.refresh]]
  /\ UNCHANGED <<cred, tokenStore, refreshVault, invites, mailbox, notified,
                 passes, reauths, processed, lab>>

\* the refresh exchange's results: a token, a permanent rejection, a
\* transient failure
RefreshResults == {"ok", "invalid_grant", "503"}

\* RefreshSchema: the fields of the token response that parse keeps (zod
\* strips the keys the schema does not name)
RefreshSchemaKeys ==
  {"access_token", "expires_in", "scope", "token_type", "id_token"}

RefreshSchemaParse(json) ==
  [k \in DOMAIN json \cap RefreshSchemaKeys |-> json[k]]

\* refreshed.refresh_token ?? refreshToken
NextRefreshToken(refreshed, refreshToken) ==
  IF "refresh_token" \in DOMAIN refreshed
  THEN refreshed["refresh_token"] ELSE refreshToken

\* the access token the provider issues next for the user
IssuedAccessToken(u) == IF tokenStore[u].access = 1 THEN 2 ELSE 1

\* updateAccessToken: refreshAccessToken, storeTokenPair; on an error
\* shouldFlagReauth decides between flagReauth and a plain rethrow
UpdateAccessToken(p) ==
  /\ pass[p].pc = "refresh"
  /\ \E res \in RefreshResults :
       LET u == CurUser(p)
           r == [pass[p] EXCEPT
                   !.refreshes401 = IF pass[p].ctx = "retry" THEN @ + 1 ELSE @,
                   !.transient = IF res = "503" THEN "refresh" ELSE @]
           token == IssuedAccessToken(u)
           refreshed == RefreshSchemaParse([access_token |-> token])
           nextRefreshToken == NextRefreshToken(refreshed, r.refresh)
       IN /\ IF res = "ok" THEN NoFault ELSE Fault
          /\ tokenStore' =
               IF res = "ok"
               THEN [tokenStore EXCEPT ![u] =
                       [access |-> token, refresh |-> nextRefreshToken]]
               ELSE tokenStore
          /\ pass' = [pass EXCEPT ![p] =
               IF res = "ok"
               THEN [r EXCEPT !.pc = "history",
                              !.attempt = IF r.ctx = "ensure" THEN 1 ELSE 2,
                              !.pageToken = 0, !.messageMap = <<>>,
                              !.access = token,
                              !.refresh = nextRefreshToken,
                              !.ctx = "none"]
               ELSE IF ShouldFlagReauth(res)
               THEN [r EXCEPT !.pc = "flagRead", !.ctx = "refresh"]
               ELSE EndUser(r, "failed")]
  /\ UNCHANGED <<cred, refreshVault, invites, mailbox, notified, passes,
                 reauths, processed, lab>>

\* what follows flagReauth: processUser returns (refresh token missing) or
\* updateAccessToken rethrows
AfterFlagReauth(r) ==
  IF r.ctx = "missing" THEN EndUser(r, "reauth") ELSE EndUser(r, "failed")

\* flagReauth, first half: re-read the credential row
FlagReauthRead(p) ==
  /\ pass[p].pc = "flagRead"
  /\ pass' = [pass EXCEPT ![p] =
        IF FlagReauthSkips(cred[CurUser(p)])
        THEN AfterFlagReauth(@)
        ELSE [@ EXCEPT !.pc = "flagWrite"]]
  /\ UNCHANGED <<cred, tokenStore, refreshVault, invites, mailbox, notified,
                 faults, passes, reauths, processed, lab>>

\* flagReauth, second half: the update, then sendReauthNotification
FlagReauthWrite(p) ==
  /\ pass[p].pc = "flagWrite"
  /\ cred' = [cred EXCEPT ![CurUser(p)].needs_reauth = FlagReauthValue]
  /\ notified' = [notified EXCEPT ![CurUser(p)] = @ + 1]
  /\ pass' = [pass EXCEPT ![p] = AfterFlagReauth(@)]
  /\ UNCHANGED <<tokenStore, refreshVault, invites, mailbox, faults, passes,
                 reauths, processed, lab>>

\* --------------------------------------------------------- sync steps
\* loadHistoryMessages adds a page's refs to messageMap, first entry wins
AddRefs(messageMap, refs) == SetAddAll(messageMap, refs)

HistoryStatuses == {"200", "401", "404", "500"}

\* one fetchHistory call of loadHistoryMessages, and what processUser does
\* with its result
FetchHistory(p) ==
  /\ pass[p].pc = "history"
  /\ \E status \in HistoryStatuses :
       /\ IF status = "200" THEN NoFault ELSE Fault
       /\ LET r == [pass[p] EXCEPT
                      !.histStatus = status,
                      !.transient = IF status = "500" THEN "history" ELSE @]
              page == HistoryPage(CurUser(p), Cur(p).last_history_id,
                                  r.pageToken)
              got == [r EXCEPT !.messageMap = AddRefs(@, page.refs),
                               !.latestHistoryId = LatestHistoryId(@, page),
                               !.maxWm = Max(@, page.historyId)]
              drained == [got EXCEPT !.historyMessages = got.messageMap,
                                     !.hasHistory = TRUE,
                                     !.messageMap = <<>>, !.pageToken = 0]
          IN pass' = [pass EXCEPT ![p] =
               IF status = "200"
               THEN IF page.hasNext
                    THEN [got EXCEPT !.pageToken = @ + 1]
                    ELSE Goto(drained, AfterSyncPc(drained, Cur(p)))
               ELSE IF OnHistoryError(r.attempt, status) = "refresh"
               THEN [r EXCEPT !.pc = "refresh", !.ctx = "retry",
                              !.messageMap = <<>>, !.pageToken = 0]
               ELSE IF OnHistoryError(r.attempt, status) = "reset"
               THEN LET reset == [r EXCEPT !.requiresCursorReset = TRUE,
                                           !.messageMap = <<>>,
                                           !.pageToken = 0]
                    IN Goto(reset, AfterSyncPc(reset, Cur(p)))
               ELSE EndUser(r, CASE status = "401" -> "unauthorized"
                                 [] status = "404" -> "expired"
                                 [] OTHER -> "failed")]
  /\ UNCHANGED <<cred, tokenStore, refreshVault, invites, mailbox, notified,
                 passes, reauths, processed, lab>>

\* listRecentMessageIds and the merge of its result into historyMessages
ListRecentMessageIds(p) ==
  /\ pass[p].pc = "backfill"
  /\ \E ok \in BOOLEAN :
       /\ IF ok THEN NoFault ELSE Fault
       /\ LET r == pass[p]
              merged == [r EXCEPT
                           !.historyMessages =
                             SetAddAll(@, mailbox[CurUser(p)]),
                           !.hasHistory = TRUE]
          IN pass' = [pass EXCEPT ![p] =
               IF ok THEN Goto(merged, AfterBackfillPc(merged, Cur(p)))
               ELSE EndUser([r EXCEPT !.transient = "backfill"], "failed")]
  /\ UNCHANGED <<cred, tokenStore, refreshVault, invites, mailbox, notified,
                 passes, reauths, processed, lab>>

\* requiresCursorReset: fetch the profile, persist its historyId, return
CursorReset(p) ==
  /\ pass[p].pc = "profile"
  /\ \E ok \in BOOLEAN :
       /\ IF ok THEN NoFault ELSE Fault
       /\ IF ok
          THEN LET newHistoryId == HistoryIdOf(CurUser(p))
               IN /\ cred' = [cred EXCEPT
                               ![CurUser(p)] = StoreCursor(@, newHistoryId)]
                  /\ pass' = [pass EXCEPT ![p] =
                        EndUser([@ EXCEPT !.baseline = newHistoryId], "reset")]
          ELSE /\ pass' = [pass EXCEPT ![p] =
                        EndUser([@ EXCEPT !.transient = "profile"], "failed")]
               /\ UNCHANGED cred
  /\ UNCHANGED <<tokenStore, refreshVault, invites, mailbox, notified,
                 passes, reauths, processed, lab>>

\* the cursor write (after an empty ref set, or after the message loop);
\* a failed update is logged and nothing else
CursorWrite(p) ==
  /\ pass[p].pc = "cursorWrite"
  /\ \E ok \in BOOLEAN :
       /\ IF ok THEN NoFault ELSE Fault
       /\ cred' = IF ok
                  THEN [cred EXCEPT ![CurUser(p)] =
                          StoreCursor(@, pass[p].latestHistoryId)]
                  ELSE cred
  /\ pass' = [pass EXCEPT ![p] = EndUser(@, "ok")]
  /\ UNCHANGED <<tokenStore, refreshVault, invites, mailbox, notified,
                 passes, reauths, processed, lab>>

\* ------------------------------------------------------ message loop
\* the ref the loop is at
CurMsg(p) == pass[p].historyMessages[pass[p].idx]

\* sharedUserIds of a candidate: the partner when among the recipients,
\* never the user
SharedUserIds(u, m) ==
  LET withPartner == IF Partner(u) # NoUser /\ Partner(u) \in MsgRecipients(m)
                     THEN <<Partner(u)>> ELSE <<>>
  IN SelectSeq(withPartner, LAMBDA x : x # u)

\* variant: the arrays are concatenated, without the Set
MergedSharedConcat(row, u, sharedUserIds) ==
  row.shared_user_ids \o (IF row.user_id # u THEN <<u>> ELSE <<>>)
    \o sharedUserIds

\* variant: the row's shared_user_ids are not carried over
MergedSharedReplace(row, u, sharedUserIds) ==
  SetAddAll(IF row.user_id # u THEN <<u>> ELSE <<>>, sharedUserIds)

\* the merge into the thread's invite: its shared_user_ids, the user unless
\* the owner, the candidate's sharedUserIds
MergedShared(row, u, sharedUserIds) ==
  LET base == NewSet(row.shared_user_ids)
      withUser == IF row.user_id # u THEN SetAdd(base, u) ELSE base
  IN SetAddAll(withUser, sharedUserIds)

\* mergedShared.size !== relatedInvite.shared_user_ids.length
SharedGrew(merged, row) == Len(merged) # Len(row.shared_user_ids)

\* invite.notes of a row no reply has written
NoNotes == "null"

\* the row a new invite is inserted as
NewInvite(u, m) ==
  [user_id |-> u, gmail_thread_id |-> MsgThread(m), gmail_message_id |-> m,
   shared_user_ids |-> SharedUserIds(u, m), status |-> "pending",
   invite_id |-> ParsedInviteId(m), notes |-> NoNotes]

RowsByMessage(store, m) ==
  {i \in DOMAIN store : store[i].gmail_message_id = m}
RowsByThread(store, t) ==
  {i \in DOMAIN store : store[i].gmail_thread_id = t}

\* the dedup / merge / insert of one candidate when nothing interleaves:
\* skip on the message id, merge into the thread's invite, else insert
ProcessCandidate(store, u, m) ==
  IF RowsByMessage(store, m) # {} THEN store
  ELSE IF RowsByThread(store, MsgThread(m)) = {}
  THEN Append(store, NewInvite(u, m))
  ELSE LET i == CHOOSE j \in RowsByThread(store, MsgThread(m)) : TRUE
           merged == MergedShared(store[i], u, SharedUserIds(u, m))
       IN IF SharedGrew(merged, store[i])
          THEN [store EXCEPT ![i].shared_user_ids = merged]
          ELSE store

\* variant: a dry run ends without the cursor write
NextMessageDryRunKeepsCursor(r, credential) ==
  IF r.idx < Len(r.historyMessages)
  THEN [r EXCEPT !.pc = "fetchMessage", !.idx = @ + 1,
                 !.relatedId = 0, !.merged = <<>>]
  ELSE IF CursorAdvances(r.latestHistoryId, credential) /\ ~r.dryRun
  THEN [r EXCEPT !.pc = "cursorWrite", !.idx = 0, !.historyMessages = <<>>,
                 !.relatedId = 0, !.merged = <<>>]
  ELSE EndUser(r, "ok")

\* continue: the next ref, or the end of the loop and the cursor write
NextMessage(r, credential) ==
  IF r.idx < Len(r.historyMessages)
  THEN [r EXCEPT !.pc = "fetchMessage", !.idx = @ + 1,
                 !.relatedId = 0, !.merged = <<>>]
  ELSE IF CursorAdvances(r.latestHistoryId, credential)
  THEN [r EXCEPT !.pc = "cursorWrite", !.idx = 0, !.historyMessages = <<>>,
                 !.relatedId = 0, !.merged = <<>>]
  ELSE EndUser(r, "ok")

MessageStatuses == {"200", "401", "404", "500"}

\* fetchThread of the fallback: the message (or a SENT one) is in the thread,
\* none is, or the call fails
ThreadResults == {"found", "missing", "401", "500"}

\* forwardDigestReply, parseInviteWithGemini: returns or throws
CallResults == {"ok", "error"}

\* the failure of the ref's fetch, routing and extraction, "none" without one
MessageError(status, thread, call, digestReply) ==
  CASE status = "401" -> "401"
    [] status = "500" -> "fetch"
    [] status = "404" /\ thread = "401" -> "thread401"
    [] status = "404" /\ thread \in {"missing", "500"} -> "thread"
    [] call = "error" -> IF digestReply THEN "forward" ELSE "extract"
    [] OTHER -> "none"

\* variant: an auth-expired failure leaves the loop and ends the user's pass
OnMessageErrorAuthPropagates(kind) ==
  IF kind \in {"401", "thread401"} THEN "throw" ELSE "skip"

\* the per-message catch, and the catch around the thread fallback: the
\* failure is logged and the loop continues with the next ref
OnMessageError(kind) == "skip"

\* the end of one ref's processing, with the failure that ended it if any
AfterMessage(r, credential, err) ==
  LET q == [r EXCEPT !.msgError = err]
  IN IF err = "none" \/ OnMessageError(err) = "skip"
     THEN NextMessage(q, credential)
     ELSE EndUser(q, IF err \in {"401", "thread401"} THEN "unauthorized"
                     ELSE "failed")

\* fetchMessage (with the thread fallback on a 404), routing, the forward of
\* a digest reply and parseInviteWithGemini for one ref
FetchMessage(p) ==
  /\ pass[p].pc = "fetchMessage"
  /\ \E status \in MessageStatuses, thread \in ThreadResults,
        call \in CallResults :
       LET digestReply == IsDigestReply(CurUser(p), CurMsg(p))
           err == MessageError(status, thread, call, digestReply)
           r == [pass[p] EXCEPT !.attempted = @ + 1]
       IN /\ status # "404" => thread = "found"
          /\ err \notin {"none", "forward", "extract"} => call = "ok"
          /\ IF status = "200" /\ call = "ok" THEN NoFault ELSE Fault
          /\ pass' = [pass EXCEPT ![p] =
               IF err = "none" /\ ~digestReply /\ MsgComplete(CurMsg(p))
                  /\ ~r.dryRun
               THEN [r EXCEPT !.pc = "existCheck", !.msgError = "none"]
               ELSE AfterMessage(r, Cur(p), err)]
  /\ UNCHANGED <<cred, tokenStore, refreshVault, invites, mailbox, notified,
                 passes, reauths, processed, lab>>

\* select id ... eq(gmail_message_id).maybeSingle(): a row skips the ref; an
\* error (of the call, or several rows) is thrown and skips it too
ExistingInviteCheck(p) ==
  /\ pass[p].pc = "existCheck"
  /\ \E ok \in BOOLEAN :
       LET rows == RowsByMessage(invites, CurMsg(p))
       IN /\ IF ok THEN NoFault ELSE Fault
          /\ pass' = [pass EXCEPT ![p] =
               IF ~ok \/ Cardinality(rows) > 1
               THEN AfterMessage(@, Cur(p), "store")
               ELSE IF rows = {} THEN [@ EXCEPT !.pc = "relatedCheck"]
               ELSE AfterMessage(@, Cur(p), "none")]
  /\ UNCHANGED <<cred, tokenStore, refreshVault, invites, mailbox, notified,
                 passes, reauths, processed, lab>>

\* select ... eq(gmail_thread_id).limit(1).maybeSingle(), and the merge
\* computed from the row read
RelatedInviteCheck(p) ==
  /\ pass[p].pc = "relatedCheck"
  /\ \E ok \in BOOLEAN :
       LET rows == RowsByThread(invites, MsgThread(CurMsg(p)))
       IN /\ IF ok THEN NoFault ELSE Fault
          /\ IF ~ok
             THEN /\ pass' = [pass EXCEPT ![p] =
                       AfterMessage(@, Cur(p), "store")]
                  /\ UNCHANGED processed
             ELSE IF rows = {}
             THEN /\ pass' = [pass EXCEPT ![p].pc = "insert"]
                  /\ UNCHANGED processed
             ELSE \E i \in rows :
                    LET merged ==
                          MergedShared(invites[i], CurUser(p),
                                       SharedUserIds(CurUser(p), CurMsg(p)))
                        grew == SharedGrew(merged, invites[i])
                    IN /\ pass' = [pass EXCEPT ![p] =
                             IF grew
                             THEN [@ EXCEPT !.pc = "mergeWrite",
                                            !.relatedId = i,
                                            !.merged = merged]
                             ELSE AfterMessage(@, Cur(p), "none")]
                       /\ processed' = IF grew THEN processed
                                       ELSE processed \cup
                                              {<<CurUser(p), CurMsg(p)>>}
  /\ UNCHANGED <<cred, tokenStore, refreshVault, invites, mailbox, notified,
                 passes, reauths, lab>>

\* update({shared_user_ids}).eq("id", relatedInvite.id); an updateError is
\* thrown
UpdateSharedInvite(p) ==
  /\ pass[p].pc = "mergeWrite"
  /\ \E ok \in BOOLEAN :
       /\ IF ok THEN NoFault ELSE Fault
       /\ invites' = IF ok
                     THEN [invites EXCEPT
                             ![pass[p].relatedId].shared_user_ids =
                               pass[p].merged]
                     ELSE invites
       /\ processed' = IF ok
                       THEN processed \cup {<<CurUser(p), CurMsg(p)>>}
                       ELSE processed
       /\ pass' = [pass EXCEPT ![p] =
            AfterMessage(@, Cur(p), IF ok THEN "none" ELSE "store")]
  /\ UNCHANGED <<cred, tokenStore, refreshVault, mailbox, notified, passes,
                 reauths, lab>>

\* insert of the new invite; an insertError is thrown
InsertInvite(p) ==
  /\ pass[p].pc = "insert"
  /\ \E ok \in BOOLEAN :
       /\ IF ok THEN NoFault ELSE Fault
       /\ invites' = IF ok
                     THEN Append(invites, NewInvite(CurUser(p), CurMsg(p)))
                     ELSE invites
       /\ processed' = IF ok
                       THEN processed \cup {<<CurUser(p), CurMsg(p)>>}
                       ELSE processed
       /\ pass' = [pass EXCEPT ![p] =
            AfterMessage(@, Cur(p), IF ok THEN "none" ELSE "store")]
  /\ UNCHANGED <<cred, tokenStore, refreshVault, mailbox, notified, passes,
                 reauths, lab>>

\* ---------------------------------------------------------------- next
Step(p) ==
  \/ GetTokenPair(p)
  \/ UpdateAccessToken(p)
  \/ FlagReauthRead(p)
  \/ FlagReauthWrite(p)
  \/ FetchHistory(p)
  \/ ListRecentMessageIds(p)
  \/ CursorReset(p)
  \/ CursorWrite(p)
  \/ FetchMessage(p)
  \/ ExistingInviteCheck(p)
  \/ RelatedInviteCheck(p)
  \/ UpdateSharedInvite(p)
  \/ InsertInvite(p)
  \/ NextCredential(p)

Environment(msgs) ==
  \/ \E m \in msgs : Deliver(m)
  \/ \E u \in Users, gotRefreshToken \in BOOLEAN :
       AuthCallbackHandler(u, gotRefreshToken)

\* handler invocations that may overlap, each for one user
UserBodies == {body \in Bodies : body.userId # "all"}

Next ==
  \/ \E p \in Procs, body \in UserBodies : PollGmailHandler(p, body)
  \/ \E p \in Procs : Step(p)
  \/ Environment(Msgs)

Spec == Init /\ [][Next]_vars

\* handler invocations one after the other (the scheduled trigger), for one
\* user or for all
NoPassRunning == \A q \in Procs : pass[q].pc = "idle"

NextSeq ==
  \/ \E p \in Procs, body \in Bodies :
       NoPassRunning /\ PollGmailHandler(p, body)
  \/ \E p \in Procs : Step(p)
  \/ Environment(AllMsgs)

SpecSeq == Init /\ [][NextSeq]_vars

\* the same, the mailboxes receiving invites and a reply to the digest
NextLoop ==
  \/ \E p \in Procs, body \in Bodies :
       NoPassRunning /\ PollGmailHandler(p, body)
  \/ \E p \in Procs : Step(p)
  \/ Environment(LoopMsgs)

SpecLoop == Init /\ [][NextLoop]_vars

\* the request's JSON before BodySchema: userId absent, a user's uuid or not
\* a uuid; dryRun; backfillDays absent (0), one day, or beyond the schema's
\* maximum
MaxBackfillDays == 30
RawBodies ==
  [userId : {"absent", "u1", "not-a-uuid"}, dryRun : BOOLEAN,
   backfillDays : {0, 1, MaxBackfillDays + 1}]

\* body = BodySchema.parse(json), and body = {} when parse throws
BodySchemaParse(json) ==
  IF json.userId = "not-a-uuid" \/ json.backfillDays > MaxBackfillDays
  THEN [userId |-> "all", dryRun |-> FALSE, backfill |-> FALSE]
  ELSE [userId |-> IF json.userId = "absent" THEN "all" ELSE json.userId,
        dryRun |-> json.dryRun, backfill |-> json.backfillDays > 0]

InitBody ==
  /\ InitSync
  /\ lab = [stage |-> "request",
            json |-> [userId |-> "absent", dryRun |-> FALSE,
                      backfillDays |-> 0]]

\* a caller sends a request with this JSON (and may send it again)
ReceiveRequest(json) ==
  /\ NoPassRunning
  /\ passes < MaxPasses
  /\ lab' = [lab EXCEPT !.json = json]
  /\ UNCHANGED <<cred, tokenStore, refreshVault, invites, mailbox, pass,
                 notified, faults, passes, reauths, processed>>

\* handler invocations one after the other, each on the JSON last received
NextBody ==
  \/ \E json \in RawBodies : ReceiveRequest(json)
  \/ \E p \in Procs :
       NoPassRunning /\ PollGmailHandler(p, BodySchemaParse(lab.json))
  \/ \E p \in Procs : Step(p)
  \/ Environment(Msgs)

SpecBody == InitBody /\ [][NextBody]_vars

\* ------------------------------------------ dedup / merge, in both orders
\* the dedup / merge / insert applied to two candidates of thread t1 in the
\* order a, b and in the order b, a, from the same starting store
MaxHistory == 2     \* candidates processed before the starting store is taken

Candidates ==
  {c \in [user : Users, msg : Msgs] : c.user \in MsgRecipients(c.msg)}

RECURSIVE ProcessAll(_, _)
ProcessAll(store, refs) ==
  IF refs = <<>> THEN store
  ELSE ProcessAll(ProcessCandidate(store, Head(refs).user, Head(refs).msg),
                  Tail(refs))

\* the stores the invite table can hold for the thread: what earlier
\* processing of up to MaxHistory candidates left
StartStores ==
  {ProcessAll(<<>>, refs) :
     refs \in UNION {[1..n -> Candidates] : n \in 0..MaxHistory}}

InitMerge ==
  /\ InitSync
  /\ lab \in {[stage |-> "start", store |-> st, a |-> a, b |-> b,
               ab |-> <<>>, ba |-> <<>>] :
                st \in StartStores, a \in Candidates, b \in Candidates}
  /\ lab.a # lab.b

\* a then b
ProcessFirstOrder ==
  /\ lab.stage \in {"start", "ab1"}
  /\ lab' = IF lab.stage = "start"
            THEN [lab EXCEPT !.stage = "ab1",
                    !.ab = ProcessCandidate(lab.store, lab.a.user, lab.a.msg)]
            ELSE [lab EXCEPT !.stage = "ab2",
                    !.ab = ProcessCandidate(lab.ab, lab.b.user, lab.b.msg)]
  /\ UNCHANGED <<cred, tokenStore, refreshVault, invites, mailbox, pass,
                 notified, faults, passes, reauths, processed>>

\* b then a
ProcessSecondOrder ==
  /\ lab.stage \in {"ab2", "ba1"}
  /\ lab' = IF lab.stage = "ab2"
            THEN [lab EXCEPT !.stage = "ba1",
                    !.ba = ProcessCandidate(lab.store, lab.b.user, lab.b.msg)]
            ELSE [lab EXCEPT !.stage = "done",
                    !.ba = ProcessCandidate(lab.ba, lab.a.user, lab.a.msg)]
  /\ UNCHANGED <<cred, tokenStore, refreshVault, invites, mailbox, pass,
                 notified, faults, passes, reauths, processed>>

NextMerge == ProcessFirstOrder \/ ProcessSecondOrder

SpecMerge == InitMerge /\ [][NextMerge]_vars

\* ------------------------------------------------------- reply_processor
MaxReplies == 3     \* replies processed in one behaviour

\* GeminiReplySchema: id, decision, notes (optional)
Decisions == {"yes", "no", "maybe"}
ReplyIds == {"1A", "2B"}
ReplyNotes == {NoNotes, "n1", "n2"}

\* variant: a maybe declines
DecisionToStatusMaybeDeclines(decision) ==
  CASE decision = "yes" -> "approved"
    [] decision = "no" -> "declined"
    [] decision = "maybe" -> "declined"

DecisionToStatus(decision) ==
  CASE decision = "yes" -> "approved"
    [] decision = "no" -> "declined"
    [] decision = "maybe" -> "pending"

\* variant: the invites shared with the user match too
LookupInviteOrShared(store, u, id) ==
  LET rows == {i \in DOMAIN store :
                 /\ store[i].invite_id = id
                 /\ \/ store[i].user_id = u
                    \/ u \in Range(store[i].shared_user_ids)}
  IN IF rows = {} THEN 0
     ELSE CHOOSE i \in rows : \A j \in rows : j <= i

\* select ... eq(user_id).contains(parsed, {invite_id}).order(created_at,
\* descending).limit(1).maybeSingle(): the newest matching row, 0 without one
LookupInvite(store, u, id) ==
  LET rows == {i \in DOMAIN store :
                 store[i].user_id = u /\ store[i].invite_id = id}
  IN IF rows = {} THEN 0
     ELSE CHOOSE i \in rows : \A j \in rows : j <= i

\* variant: an invite that is approved or declined is left as it is
UpdatedFieldsKeepsDecided(row, decision, notes) ==
  IF row.status \in {"approved", "declined"} THEN row
  ELSE [row EXCEPT !.status = DecisionToStatus(decision), !.notes = notes]

\* updatedFields: status, and notes (null when the reply has none)
UpdatedFields(row, decision, notes) ==
  [row EXCEPT !.status = DecisionToStatus(decision), !.notes = notes]

\* response.ok of the forwarding caller: a 2xx status; the dry run answers 200
ResponseOk(code) == code \in {"200", "dry"}

\* the replies start from an invite table earlier passes left
InitReply ==
  /\ cred = [u \in Users |-> [needs_reauth |-> FALSE, last_history_id |-> 0]]
  /\ tokenStore = [u \in Users |-> [access |-> 0, refresh |-> 1]]
  /\ refreshVault = {"u1"}
  /\ invites \in StartStores
  /\ mailbox = [u \in Users |-> <<>>]
  /\ pass = [p \in Procs |-> IdlePass]
  /\ notified = [u \in Users |-> 0]
  /\ faults = 0
  /\ passes = 0
  /\ reauths = 0
  /\ processed = {}
  /\ lab = [stage |-> "reply", replies |-> 0, code |-> "none", row |-> 0,
            decision |-> "none", notes |-> NoNotes, ref |-> <<0, 0>>,
            same |-> FALSE]

\* the reply handler, one request: callGeminiJson, the dry run, the lookup,
\* the update of the row found; lab keeps the response and the parsed reply,
\* and whether the reply applied is the one applied just before
ReplyProcessorHandler(u, dryRun) ==
  /\ lab.stage = "reply"
  /\ lab.replies < MaxReplies
  /\ \E id \in ReplyIds, decision \in Decisions, notes \in ReplyNotes,
        failure \in {"none", "gemini", "lookup", "update"} :
       LET i == LookupInvite(invites, u, id)
           code == CASE failure = "gemini" -> "502"
                     [] dryRun -> "dry"
                     [] failure = "lookup" -> "500"
                     [] i = 0 -> "404"
                     [] failure = "update" -> "500"
                     [] OTHER -> "200"
       IN /\ IF failure = "none" THEN NoFault ELSE Fault
          /\ failure = "update" => ~dryRun /\ i # 0
          /\ failure = "lookup" => ~dryRun
          /\ invites' = IF code = "200"
                        THEN [invites EXCEPT
                                ![i] = UpdatedFields(@, decision, notes)]
                        ELSE invites
          /\ lab' = [lab EXCEPT !.replies = @ + 1, !.code = code,
                                !.row = IF code = "200" THEN i ELSE 0,
                                !.decision = IF failure = "gemini" THEN "none"
                                             ELSE decision,
                                !.notes = IF failure = "gemini" THEN NoNotes
                                          ELSE notes,
                                !.ref = <<u, id>>,
                                !.same = /\ code = "200" /\ lab.code = "200"
                                         /\ <<u, id>> = lab.ref
                                         /\ decision = lab.decision
                                         /\ notes = lab.notes]
  /\ UNCHANGED <<cred, tokenStore, refreshVault, mailbox, pass, notified,
                 passes, reauths, processed>>

NextReply ==
  \E u \in Users, dryRun \in BOOLEAN : ReplyProcessorHandler(u, dryRun)

SpecReply == InitReply /\ [][NextReply]_vars

\* ----------------------------------------------------- token refresh
\* updateAccessToken on its own: the stored pair, the provider's response
\* (with a newly issued refresh token when the provider rotates it), the pair
\* stored and the pair returned
MaxRefreshes == 2   \* refreshes in one behaviour

\* refresh tokens: 1 and 2 stored earlier, 3 and 4 issued by a rotation
StoredRefreshTokens == {1, 2}
RotatedRefreshToken(refreshToken) == refreshToken + 2

\* the token endpoint's JSON of a successful exchange
TokenResponses(u, refreshToken) ==
  {[access_token |-> IssuedAccessToken(u)],
   [access_token |-> IssuedAccessToken(u),
    refresh_token |-> RotatedRefreshToken(refreshToken)]}

InitRefresh ==
  /\ cred = [u \in Users |-> [needs_reauth |-> FALSE, last_history_id |-> 0]]
  /\ tokenStore \in [Users -> [access : {0, 1}, refresh : StoredRefreshTokens]]
  /\ refreshVault = {"u1"}
  /\ invites = <<>>
  /\ mailbox = [u \in Users |-> <<>>]
  /\ pass = [p \in Procs |-> IdlePass]
  /\ notified = [u \in Users |-> 0]
  /\ faults = 0
  /\ passes = 0
  /\ reauths = 0
  /\ processed = {}
  /\ lab = [stage |-> "refresh", refreshes |-> 0, user |-> NoUser,
            code |-> "none", before |-> [access |-> 0, refresh |-> 0],
            response |-> <<>>, returned |-> [access |-> 0, refresh |-> 0]]

\* updateAccessToken(userId, credentialId, refreshToken), the refresh token
\* being the stored one: the exchange, storeTokenPair, the pair returned; a
\* failure of the exchange or of the store is thrown
RefreshStoredToken(u) ==
  /\ lab.stage = "refresh"
  /\ lab.refreshes < MaxRefreshes
  /\ \E json \in TokenResponses(u, tokenStore[u].refresh),
        failure \in {"none", "exchange", "store"} :
       LET refreshToken == tokenStore[u].refresh
           refreshed == RefreshSchemaParse(json)
           nextRefreshToken == NextRefreshToken(refreshed, refreshToken)
           pair == [access |-> refreshed["access_token"],
                    refresh |-> nextRefreshToken]
       IN /\ IF failure = "none" THEN NoFault ELSE Fault
          /\ tokenStore' = IF failure = "none"
                           THEN [tokenStore EXCEPT ![u] = pair]
                           ELSE tokenStore
          /\ lab' = [lab EXCEPT
                       !.refreshes = @ + 1, !.user = u,
                       !.code = IF failure = "none" THEN "ok" ELSE "thrown",
                       !.before = tokenStore[u],
                       !.response = IF failure = "exchange" THEN <<>> ELSE json,
                       !.returned = IF failure = "none" THEN pair
                                    ELSE [access |-> 0, refresh |-> 0]]
  /\ UNCHANGED <<cred, refreshVault, invites, mailbox, pass, notified,
                 passes, reauths, processed>>

NextRefresh == \E u \in Users : RefreshStoredToken(u)

SpecRefresh == InitRefresh /\ [][NextRefresh]_vars

\* ------------------------------------------------- refs of the sync step
\* loadHistoryMessages and the backfill merge on their own, the provider's
\* entries with their thread ids and labels
MaxEntries == 2     \* change-stream entries, and messages the search returns

\* messages of the provider: a later message of a thread, the first message
\* of a thread (its id is the thread's id), a draft, a chat message
ProviderMessages ==
  {[id |-> "m1", threadId |-> "t1", labelIds |-> {"INBOX"}],
   [id |-> "t1", threadId |-> "t1", labelIds |-> {"INBOX"}],
   [id |-> "m5", threadId |-> "t1", labelIds |-> {"DRAFT"}],
   [id |-> "m6", threadId |-> "t1", labelIds |-> {"CHAT"}]}

\* an entry of a history record: of messagesAdded, or of messages
HistoryEntries ==
  [kind : {"messagesAdded", "messages"}, message : ProviderMessages]

SeqsUpTo(set, n) == UNION {[1..k -> set] : k \in 0..n}

MapHas(map, id) == \E i \in DOMAIN map : map[i].id = id

\* Map.set: the value of the key replaced where it is, a new key appended
MapSet(map, ref) ==
  IF MapHas(map, ref.id)
  THEN [i \in DOMAIN map |-> IF map[i].id = ref.id THEN ref ELSE map[i]]
  ELSE Append(map, ref)

\* loadHistoryMessages, one entry of messagesAdded or of messages
AddHistoryEntry(messageMap, entry) ==
  LET m == entry.message
  IN IF m.id = m.threadId THEN messageMap
     ELSE IF entry.kind = "messagesAdded"
             /\ ("DRAFT" \in m.labelIds \/ "CHAT" \in m.labelIds)
     THEN messageMap
     ELSE IF MapHas(messageMap, m.id) THEN messageMap
     ELSE Append(messageMap,
                 [id |-> m.id, threadId |-> m.threadId,
                  labelIds |-> IF entry.kind = "messagesAdded"
                               THEN m.labelIds ELSE {}])

\* listRecentMessageIds: messageMap.set for every message of the search
RECURSIVE SetAll(_, _)
SetAll(map, messages) ==
  IF messages = <<>> THEN map
  ELSE SetAll(MapSet(map, Head(messages)), Tail(messages))

InitRefs ==
  /\ InitSync
  /\ lab \in [stage : {"paging"},
               entries : SeqsUpTo(HistoryEntries, MaxEntries),
               backfillDays : {0, 1},
               recent : SeqsUpTo(ProviderMessages, MaxEntries),
               messageMap : {<<>>}, historyMessages : {<<>>}]
  /\ lab.backfillDays = 0 => lab.recent = <<>>

\* loadHistoryMessages: one page of the change stream, an entry a page
LoadHistoryPage ==
  /\ lab.stage = "paging"
  /\ LET messageMap == IF lab.entries = <<>> THEN lab.messageMap
                       ELSE AddHistoryEntry(lab.messageMap, Head(lab.entries))
         rest == IF lab.entries = <<>> THEN <<>> ELSE Tail(lab.entries)
     IN lab' = IF rest # <<>>
               THEN [lab EXCEPT !.messageMap = messageMap, !.entries = rest]
               ELSE [lab EXCEPT !.stage = "synced", !.entries = rest,
                                !.messageMap = <<>>,
                                !.historyMessages = messageMap]
  /\ UNCHANGED <<cred, tokenStore, refreshVault, invites, mailbox, pass,
                 notified, faults, passes, reauths, processed>>

\* the backfill: listRecentMessageIds, merged into historyMessages
MergeBackfill ==
  /\ lab.stage = "synced"
  /\ lab.backfillDays > 0
  /\ lab' = [lab EXCEPT
               !.stage = "merged",
               !.historyMessages = SetAll(@, SetAll(<<>>, lab.recent))]
  /\ UNCHANGED <<cred, tokenStore, refreshVault, invites, mailbox, pass,
                 notified, faults, passes, reauths, processed>>

NextRefs == LoadHistoryPage \/ MergeBackfill

SpecRefs == InitRefs /\ [][NextRefs]_vars

\* ---------------------------------------------------- thread fallback
\* fetchMessage and its fallback to the thread on their own; thread.messages
\* is in the provider's order, the oldest message first
MaxThread == 3      \* messages of the thread

ThreadMessageIds == {"m1", "m7", "m8"}

\* the messages of a thread: their ids differ
Threads ==
  {t \in SeqsUpTo([id : ThreadMessageIds, labelIds : {{}, {"SENT"}}],
                  MaxThread) :
     \A i, j \in DOMAIN t : t[i].id = t[j].id => i = j}

\* Array.prototype.find, given the test's result for each element in order:
\* the index of the first element that passes the test, 0 without one
Find(hits) ==
  IF \E i \in DOMAIN hits : hits[i]
  THEN CHOOSE i \in DOMAIN hits :
         hits[i] /\ \A j \in DOMAIN hits : hits[j] => i <= j
  ELSE 0

\* thread.messages.find(id === messageId) ?? thread.messages.find(SENT): the
\* index of the fallback, 0 without one
FindFallback(messages, messageId) ==
  LET byId == Find([i \in DOMAIN messages |-> messages[i].id = messageId])
  IN IF byId # 0 THEN byId
     ELSE Find([i \in DOMAIN messages |-> "SENT" \in messages[i].labelIds])

InitThread ==
  /\ InitSync
  /\ lab \in [stage : {"ref"}, messageId : {"m1"}, thread : Threads,
               outcome : {"none"}, used : {"none"}]

\* the fetch of one ref: the message, or after a 404 the fallback from the
\* thread; no fallback or a failing fetchThread ends the ref (continue), any
\* other failure of fetchMessage is thrown to the loop's catch
FetchWithFallback ==
  /\ lab.stage = "ref"
  /\ \E status \in MessageStatuses, threadOk \in BOOLEAN :
       LET fallback == FindFallback(lab.thread, lab.messageId)
       IN /\ status # "404" => threadOk
          /\ IF status = "200" THEN NoFault ELSE Fault
          /\ lab' =
               CASE status = "200" ->
                      [lab EXCEPT !.stage = "fetched", !.outcome = "message",
                                  !.used = lab.messageId]
                 [] status = "404" /\ threadOk /\ fallback # 0 ->
                      [lab EXCEPT !.stage = "fetched", !.outcome = "fallback",
                                  !.used = lab.thread[fallback].id]
                 [] status = "404" /\ threadOk /\ fallback = 0 ->
                      [lab EXCEPT !.stage = "skipped", !.outcome = "missing"]
                 [] status = "404" /\ ~threadOk ->
                      [lab EXCEPT !.stage = "skipped",
                                  !.outcome = "threadFailed"]
                 [] OTHER ->
                      [lab EXCEPT !.stage = "skipped", !.outcome = "thrown"]
  /\ UNCHANGED <<cred, tokenStore, refreshVault, invites, mailbox, pass,
                 notified, passes, reauths, processed>>

NextThread == FetchWithFallback

SpecThread == InitThread /\ [][NextThread]_vars

\* ------------------------------------------------ the handler's loop
\* pollGmailHandler for a POST request, a user's pass as one step: what
\* processUser did to the reauth flag, and whether it returned or threw
UserOutcomes == {"ok", "reauth", "reset", "failed", "unauthorized", "expired"}

\* processUser ended by a throw
Thrown(outcome) == outcome \in {"failed", "unauthorized", "expired"}

\* variant: an auth failure of a user leaves the loop
OnUserFailureAuthAborts(outcome) ==
  IF outcome = "unauthorized" THEN "abort" ELSE "continue"

\* the catch around processUser: the failure is logged, the loop goes on
OnUserFailure(outcome) == "continue"

InitBatch ==
  /\ cred \in [Users -> [needs_reauth : BOOLEAN, last_history_id : {0}]]
  /\ tokenStore = [u \in Users |-> [access |-> 0, refresh |-> 1]]
  /\ refreshVault = {"u1"}
  /\ invites = <<>>
  /\ mailbox = [u \in Users |-> <<>>]
  /\ pass = [p \in Procs |-> IdlePass]
  /\ notified = [u \in Users |-> 0]
  /\ faults = 0
  /\ passes = 0
  /\ reauths = 0
  /\ processed = {}
  /\ lab = [stage |-> "request", body |-> "none", credAtStart |-> cred,
            loadFailure |-> "none", queue |-> <<>>, attempted |-> <<>>,
            outcomes |-> <<>>, status |-> 0, usersProcessed |-> 0]

\* the handler up to its loop: the credentials and the users are loaded; a
\* failure of either load is answered with a 500, no eligible user with a 200
LoadCredentials(body) ==
  /\ lab.stage = "request"
  /\ \E loadFailure \in {"none", "credentials", "users"} :
       LET queue == FilteredCredentials(body)
       IN /\ IF loadFailure = "none" THEN NoFault ELSE Fault
          /\ loadFailure = "users" => queue # <<>>
          /\ lab' = [lab EXCEPT
                       !.body = body, !.credAtStart = cred,
                       !.loadFailure = loadFailure,
                       !.stage = IF loadFailure = "none" /\ queue # <<>>
                                 THEN "loop" ELSE "responded",
                       !.queue = IF loadFailure = "none" THEN queue ELSE <<>>,
                       !.status = IF loadFailure = "none" THEN 200 ELSE 500]
  /\ UNCHANGED <<cred, tokenStore, refreshVault, invites, mailbox, pass,
                 notified, passes, reauths, processed>>

\* one turn of the loop: processUser for the next credential returns or
\* throws, having flagged the user for reauth or not; after the last one the
\* response is sent
ProcessNextUser ==
  /\ lab.stage = "loop"
  /\ \E outcome \in UserOutcomes, flagged \in BOOLEAN :
       LET u == Head(lab.queue).user_id
           rest == Tail(lab.queue)
           aborts == Thrown(outcome) /\ OnUserFailure(outcome) = "abort"
       IN /\ outcome = "reauth" => flagged
          /\ flagged => outcome \in {"reauth", "failed"}
          /\ IF Thrown(outcome) THEN Fault ELSE NoFault
          /\ cred' = IF flagged
                     THEN [cred EXCEPT ![u].needs_reauth = FlagReauthValue]
                     ELSE cred
          /\ notified' = IF flagged /\ ~cred[u].needs_reauth
                         THEN [notified EXCEPT ![u] = @ + 1] ELSE notified
          /\ lab' = [lab EXCEPT
                       !.attempted = Append(@, u),
                       !.outcomes = Append(@, outcome),
                       !.queue = IF aborts THEN <<>> ELSE rest,
                       !.stage = IF aborts \/ rest = <<>>
                                 THEN "responded" ELSE "loop",
                       !.status = IF aborts THEN 500 ELSE 200,
                       !.usersProcessed =
                         IF ~aborts /\ rest = <<>>
                         THEN Len(lab.attempted) + 1 ELSE 0]
  /\ UNCHANGED <<tokenStore, refreshVault, invites, mailbox, pass, passes,
                 reauths, processed>>

NextBatch ==
  \/ \E body \in Bodies : LoadCredentials(body)
  \/ ProcessNextUser

SpecBatch == InitBatch /\ [][NextBatch]_vars

\* ------------------------------------------------------------ routing
\* the routing of one fetched message in processUser's loop, on its own:
\* the labels of the ref and of the message, the markers of a digest reply,
\* the sender, the parts that can give the text
RefLabelSets == {{}, {"SENT"}, {"DRAFT"}}
MessageLabelSets == SUBSET {"DRAFT", "CHAT", "SENT"}

\* which of text/plain, snippet and text/html are not blank
TextParts == SUBSET {"text", "snippet", "html"}

\* new Set([...labelIds, ...message.labelIds])
CombinedLabelSet(labelIds, messageLabelIds) == labelIds \cup messageLabelIds

\* emailText after the fallbacks: the plain text, else the snippet, else the
\* html; "" when all are blank
EmailText(parts) ==
  IF "text" \in parts THEN "text"
  ELSE IF "snippet" \in parts THEN "snippet"
  ELSE IF "html" \in parts THEN "html"
  ELSE ""

\* variant: the digest reply is not required to carry the SENT label
RouteNoSentLabel(labels, isDigestReply, isDigestRecipient, isFromUser, text) ==
  IF "DRAFT" \in labels \/ "CHAT" \in labels THEN "ignored"
  ELSE IF (isDigestReply \/ isDigestRecipient) /\ isFromUser
  THEN "digest-reply"
  ELSE IF text = "" THEN "skipped"
  ELSE IF isFromUser THEN "skipped"
  ELSE "invite-candidate"

\* the loop body from the draft/chat test to parseInviteWithGemini: each
\* test that holds ends the ref (continue)
\* (text: emailText)
RouteMessage(labels, isDigestReply, isDigestRecipient, isFromUser, text) ==
  IF "DRAFT" \in labels \/ "CHAT" \in labels THEN "ignored"
  ELSE IF (isDigestReply \/ isDigestRecipient) /\ isFromUser
          /\ "SENT" \in labels
  THEN "digest-reply"
  ELSE IF text = "" THEN "skipped"
  ELSE IF isFromUser THEN "skipped"
  ELSE "invite-candidate"

InitRoute ==
  /\ cred = [u \in Users |-> [needs_reauth |-> FALSE, last_history_id |-> 0]]
  /\ tokenStore = [u \in Users |-> [access |-> 0, refresh |-> 1]]
  /\ refreshVault = {"u1"}
  /\ invites \in StartStores
  /\ mailbox = [u \in Users |-> <<>>]
  /\ pass = [p \in Procs |-> IdlePass]
  /\ notified = [u \in Users |-> 0]
  /\ faults = 0
  /\ passes = 0
  /\ reauths = 0
  /\ processed = {}
  /\ lab \in [stage : {"fetched"}, user : Users, msg : AllMsgs,
               labelIds : RefLabelSets, messageLabelIds : MessageLabelSets,
               isDigestReply : BOOLEAN, isDigestRecipient : BOOLEAN,
               isFromUser : BOOLEAN, parts : TextParts,
               route : {"none"}, forwarded : {FALSE}, extracted : {FALSE}]

\* one ref of the loop, from the fetched message on: the routing, the forward
\* of a digest reply, the extraction of a candidate and its dedup / merge /
\* insert
RouteFetchedMessage ==
  /\ lab.stage = "fetched"
  /\ LET route == RouteMessage(
                    CombinedLabelSet(lab.labelIds, lab.messageLabelIds),
                    lab.isDigestReply, lab.isDigestRecipient, lab.isFromUser,
                    EmailText(lab.parts))
     IN /\ lab' = [lab EXCEPT !.stage = "routed", !.route = route,
                              !.forwarded = (route = "digest-reply"),
                              !.extracted = (route = "invite-candidate")]
        /\ invites' = IF route = "invite-candidate" /\ MsgComplete(lab.msg)
                      THEN ProcessCandidate(invites, lab.user, lab.msg)
                      ELSE invites
  /\ UNCHANGED <<cred, tokenStore, refreshVault, mailbox, pass, notified,
                 faults, passes, reauths, processed>>

NextRoute == RouteFetchedMessage

SpecRoute == InitRoute /\ [][NextRoute]_vars

\* -------------------------------------------------- reply_preprocessor
\* strings are sequences of characters
Upper ==
  <<"A", "B", "C", "D", "E", "F", "G", "H", "I", "J", "K", "L", "M", "N",
    "O", "P", "Q", "R", "S", "T", "U", "V", "W", "X", "Y", "Z">>
Lower ==
  <<"a", "b", "c", "d", "e", "f", "g", "h", "i", "j", "k", "l", "m", "n",
    "o", "p", "q", "r", "s", "t", "u", "v", "w", "x", "y", "z">>

CharCodeA == 65     \* String.fromCharCode(65 + index)

\* the characters of the five codes after that of "Z"
AfterZ == <<"[", "\\", "]", "^", "_">>

\* String.fromCharCode for the codes from that of "A" to that of "_"
FromCharCode(code) ==
  LET k == code - CharCodeA + 1
  IN IF k <= Len(Upper) THEN Upper[k] ELSE AfterZ[k - Len(Upper)]

IsSpace(c) == c \in {" ", "\t", "\n"}
IsLetter(c) == \E i \in DOMAIN Upper : c = Upper[i] \/ c = Lower[i]

RECURSIVE TrimStart(_)
TrimStart(s) ==
  IF s # <<>> /\ IsSpace(Head(s)) THEN TrimStart(Tail(s)) ELSE s

RECURSIVE TrimEnd(_)
TrimEnd(s) ==
  IF s # <<>> /\ IsSpace(s[Len(s)])
  THEN TrimEnd(SubSeq(s, 1, Len(s) - 1)) ELSE s

\* String.prototype.trim
Trim(s) == TrimEnd(TrimStart(s))

UpperChar(c) ==
  IF \E i \in DOMAIN Lower : c = Lower[i]
  THEN Upper[CHOOSE i \in DOMAIN Lower : c = Lower[i]]
  ELSE c

\* String.prototype.toUpperCase
ToUpperCase(s) == [i \in 1..Len(s) |-> UpperChar(s[i])]

InviteWord == <<"I", "N", "V", "I", "T", "E">>

\* `INVITE ${letterKey}`
InviteKey(letterKey) == InviteWord \o <<" ">> \o letterKey

\* an object as a map from keys to values: obj[key] = value
Put(map, key, value) ==
  [k \in DOMAIN map \cup {key} |-> IF k = key THEN value ELSE map[k]]

\* the Map of the stored entries: keys trimmed and in upper case, values
\* trimmed, entries with an empty key or value dropped, a later entry of the
\* same key replacing the earlier
RECURSIVE NormalizeStored(_, _)
NormalizeStored(map, entries) ==
  IF entries = <<>> THEN map
  ELSE LET key == ToUpperCase(Trim(Head(entries).key))
           value == Trim(Head(entries).value)
       IN NormalizeStored(IF key # <<>> /\ value # <<>>
                          THEN Put(map, key, value) ELSE map,
                          Tail(entries))

\* normalizedStored.get(letterKey) ?? normalizedStored.get(inviteKey) ??
\* fallback
StoredInvite(normalizedStored, letterKey, fallback) ==
  IF letterKey \in DOMAIN normalizedStored THEN normalizedStored[letterKey]
  ELSE IF InviteKey(letterKey) \in DOMAIN normalizedStored
  THEN normalizedStored[InviteKey(letterKey)]
  ELSE fallback

\* variant: the stored value before the item's own invite_id
PickInviteIdStoredFirst(rawInviteId, storedInvite, letterKey) ==
  IF storedInvite # <<>> THEN storedInvite
  ELSE IF rawInviteId # <<>> THEN rawInviteId
  ELSE letterKey

\* rawInviteId || storedInvite || letterKey
PickInviteId(rawInviteId, storedInvite, letterKey) ==
  IF rawInviteId # <<>> THEN rawInviteId
  ELSE IF storedInvite # <<>> THEN storedInvite
  ELSE letterKey

\* items.forEach, one item: its letter, the invite id both of its keys get,
\* its line
ItemLetter(index) == <<FromCharCode(CharCodeA + index)>>

ItemInviteId(item, index, normalizedStored) ==
  LET letterKey == ToUpperCase(ItemLetter(index))
      rawInviteId == IF item.hasId THEN Trim(item.invite_id) ELSE <<>>
  IN IF item.object
     THEN PickInviteId(rawInviteId,
                       StoredInvite(normalizedStored, letterKey, <<>>),
                       letterKey)
     ELSE StoredInvite(normalizedStored, letterKey, letterKey)

ItemLine(item, index, normalizedStored) ==
  IF item.object
  THEN ItemLetter(index) \o <<".", " ">>
         \o ItemInviteId(item, index, normalizedStored) \o <<":", " ">>
         \o item.summary
  ELSE ItemLetter(index) \o <<".", " ">> \o item.summary

\* items.forEach: letterMap[letterKey] = letterMap[inviteKey] = inviteId for
\* the item of every index (the keys of two indexes differ)
ItemsForEach(list, normalizedStored) ==
  LET keysOf(index) == {ToUpperCase(ItemLetter(index)),
                        InviteKey(ToUpperCase(ItemLetter(index)))}
      indexOf(key) == CHOOSE index \in 0..(Len(list) - 1) :
                        key \in keysOf(index)
  IN [key \in UNION {keysOf(index) : index \in 0..(Len(list) - 1)} |->
        ItemInviteId(list[indexOf(key) + 1], indexOf(key), normalizedStored)]

\* normalizedStored.forEach: if (!letterMap[key]) letterMap[key] = value
FillFromStored(map, normalizedStored) ==
  [key \in DOMAIN map \cup DOMAIN normalizedStored |->
     IF key \in DOMAIN map /\ map[key] # <<>> THEN map[key]
     ELSE normalizedStored[key]]

\* lines.join("\n\n")
RECURSIVE JoinLines(_)
JoinLines(lines) ==
  IF lines = <<>> THEN <<>>
  ELSE IF Len(lines) = 1 THEN Head(lines)
  ELSE Head(lines) \o <<"\n", "\n">> \o JoinLines(Tail(lines))

\* reconstructDigestContext(items, storedMapping): items is the array (or,
\* array false, something else); storedMapping is given by its entries
ReconstructDigestContext(items, storedMapping) ==
  LET normalizedStored == NormalizeStored(<<>>, storedMapping)
  IN IF ~items.array
     THEN [text |-> <<>>, letterToInviteId |-> normalizedStored]
     ELSE [text |->
             JoinLines([k \in 1..Len(items.list) |->
                          ItemLine(items.list[k], k - 1, normalizedStored)]),
           letterToInviteId |->
             FillFromStored(ItemsForEach(items.list, normalizedStored),
                            normalizedStored)]

\* /^Invite\s+([A-Za-z])$/i
MatchesInvitePrefix(s) ==
  /\ Len(s) >= Len(InviteWord) + 2
  /\ ToUpperCase(SubSeq(s, 1, Len(InviteWord))) = InviteWord
  /\ \A i \in (Len(InviteWord) + 1)..(Len(s) - 1) : IsSpace(s[i])
  /\ IsLetter(s[Len(s)])

\* variant: the "Invite <letter>" form is tried before the direct lookup
ResolveInviteIdPrefixFirst(rawInviteId, letterMap) ==
  LET trimmed == Trim(rawInviteId)
      key == ToUpperCase(trimmed)
      letter == <<UpperChar(trimmed[Len(trimmed)])>>
  IN IF trimmed = <<>> THEN trimmed
     ELSE IF MatchesInvitePrefix(trimmed) /\ letter \in DOMAIN letterMap
     THEN letterMap[letter]
     ELSE IF key \in DOMAIN letterMap /\ letterMap[key] # <<>>
     THEN letterMap[key]
     ELSE IF Len(trimmed) = 1 /\ IsLetter(trimmed[1])
             /\ letter \in DOMAIN letterMap
     THEN letterMap[letter]
     ELSE trimmed

\* resolveInviteId(rawInviteId, letterMap)
ResolveInviteId(rawInviteId, letterMap) ==
  LET trimmed == Trim(rawInviteId)
      key == ToUpperCase(trimmed)
      letter == <<UpperChar(trimmed[Len(trimmed)])>>
  IN IF trimmed = <<>> THEN trimmed
     ELSE IF key \in DOMAIN letterMap /\ letterMap[key] # <<>>
     THEN letterMap[key]
     ELSE IF Len(trimmed) = 1 /\ IsLetter(trimmed[1])
     THEN (IF letter \in DOMAIN letterMap THEN letterMap[letter]
           ELSE trimmed)
     ELSE IF MatchesInvitePrefix(trimmed)
     THEN (IF letter \in DOMAIN letterMap THEN letterMap[letter]
           ELSE trimmed)
     ELSE trimmed

\* buildDigestBody: the letter of the header of the invite at index
HeaderLetter(index) == <<FromCharCode(CharCodeA + index)>>

\* ---- inputs
\* the invite_id of the k-th invite of a digest: "1A", "1B", ..., "1Z",
\* "2A", ...
InviteIdOf(k) ==
  IF k <= Len(Upper) THEN <<"1", Upper[k]>> ELSE <<"2", Upper[k - Len(Upper)]>>

Summary == <<"s">>

\* an item of digest.items as buildDigestBody pushes it
DigestItem(inviteId) ==
  [object |-> TRUE, hasId |-> TRUE, invite_id |-> inviteId,
   summary |-> Summary]

\* items of one position: with its invite_id, with an invite_id in
\* surrounding white space, with a blank one, without one, and not an object
ItemChoices(k) ==
  {DigestItem(InviteIdOf(k)),
   DigestItem(<<" ">> \o InviteIdOf(k)),
   DigestItem(<<" ">>),
   [object |-> TRUE, hasId |-> FALSE, invite_id |-> <<>>,
    summary |-> Summary],
   [object |-> FALSE, hasId |-> FALSE, invite_id |-> <<>>,
    summary |-> Summary]}

\* the pending invites of a digest are not limited in number
ItemCounts == {0, 1, 2, 26, 27}

\* the item lists of n items: the first item varies, and with two items the
\* second has its invite_id or none
ItemLists(n) ==
  IF n = 0 THEN {<<>>}
  ELSE {[k \in 1..n |-> IF k = 1 THEN first
                         ELSE IF k = 2 /\ n = 2 THEN second
                         ELSE DigestItem(InviteIdOf(k))] :
          first \in ItemChoices(1),
          second \in {c \in ItemChoices(2) :
                        c.object /\ Trim(c.invite_id) = c.invite_id}}

ItemInputs ==
  {[array |-> FALSE, list |-> <<>>]}
  \cup {[array |-> TRUE, list |-> l] :
          l \in UNION {ItemLists(n) : n \in ItemCounts}}

\* digest.letter_mapping: up to MaxStored entries
MaxStored == 2

StoredKeys ==
  {<<"A">>, InviteKey(<<"A">>), <<"C">>, InviteKey(<<"C">>)}
StoredValues == {<<"X", "9">>, <<"Y", "8">>}

StoredInputs ==
  {e \in UNION {[1..n -> [key : StoredKeys, value : StoredValues]] :
                  n \in 0..MaxStored} :
     \A i, j \in DOMAIN e : e[i].key = e[j].key => i = j}

\* the references the analyzer returns for a reply
References ==
  {<<"a">>, <<" ", "a", " ">>, <<"c">>, <<"d">>,
   <<"I", "n", "v", "i", "t", "e", " ", "C">>,
   <<"i", "n", "v", "i", "t", "e", " ", " ", "c">>,
   InviteKey(<<"A">>), InviteIdOf(1), <<" ">> \o InviteIdOf(1) \o <<" ">>,
   <<"z", "z">>, <<" ">>}

\* the letters a digest of these items shows
GeneratedLetters(items) ==
  {<<FromCharCode(CharCodeA + index)>> : index \in 0..(Len(items.list) - 1)}

\* a reply arrives for a user with a digest row (its items and stored
\* letter_mapping) or without one
InitLetters ==
  /\ InitSync
  /\ lab \in {[stage |-> "input", digest |-> TRUE, items |-> it,
               stored |-> st, mapping |-> <<>>, text |-> <<>>,
               ref |-> <<>>, resolved |-> <<>>] :
                it \in ItemInputs, st \in StoredInputs}
           \cup {[stage |-> "input", digest |-> FALSE,
                  items |-> [array |-> TRUE, list |-> <<>>],
                  stored |-> <<>>, mapping |-> <<>>, text |-> <<>>,
                  ref |-> <<>>, resolved |-> <<>>]}

\* replyPreprocessorHandler: the digest context of the reply; without a digest
\* row letterMapping stays {}
LoadDigestContext ==
  /\ lab.stage = "input"
  /\ LET digestDetails == ReconstructDigestContext(lab.items, lab.stored)
     IN lab' = IF lab.digest
               THEN [lab EXCEPT !.stage = "context",
                                !.mapping = digestDetails.letterToInviteId,
                                !.text = digestDetails.text]
               ELSE [lab EXCEPT !.stage = "context"]
  /\ UNCHANGED <<cred, tokenStore, refreshVault, invites, mailbox, pass,
                 notified, faults, passes, reauths, processed>>

\* replyPreprocessorHandler: a decision's invite_id is resolved
ResolveDecision ==
  /\ lab.stage = "context"
  /\ \E ref \in References \cup GeneratedLetters(lab.items) :
       lab' = [lab EXCEPT !.stage = "resolved", !.ref = ref,
                          !.resolved = ResolveInviteId(ref, lab.mapping)]
  /\ UNCHANGED <<cred, tokenStore, refreshVault, invites, mailbox, pass,
                 notified, faults, passes, reauths, processed>>

NextLetters == LoadDigestContext \/ ResolveDecision

SpecLetters == InitLetters /\ [][NextLetters]_vars

\* shared_user_ids of the thread's invites, as a set
ThreadShared(store, t) ==
  UNION {Range(store[i].shared_user_ids) : i \in RowsByThread(store, t)}

\* the users the thread's invites are visible to: owner and shared_user_ids
ThreadVisible(store, t) ==
  ThreadShared(store, t) \cup {store[i].user_id : i \in RowsByThread(store, t)}

\* ============================================================== properties
\* the persisted cursor of the user a pass is at
Cursor(p) == cred[CurUser(p)].last_history_id

\* the step the pass p takes in the message loop concerns a ref whose
\* processing already inserted or merged
LoopPcs == {"existCheck", "relatedCheck", "mergeWrite", "insert"}
Replaying(p) ==
  /\ pass[p].pc \in LoopPcs
  /\ <<CurUser(p), CurMsg(p)>> \in processed

\* ------------------------------------------------------------ send_digest
\* the digest sweep: the users in turn, the hour gate, the last-digest guard,
\* the pending invites, buildDigestBody, the delivery and the digest row
MaxSweeps == 3      \* sweeps in one behaviour

HoursPerDay == 24
DigestHour == 7

\* now (body.now or the clock), in hours; u1 is at 7 AM local at 7 and 31,
\* u2 at 12 and 36
Instants == {7, 12, 31, 36}

\* app_user.tz as the offset of the zone in hours
TzOffset(u) == IF u = "u1" THEN 0 ELSE 0 - 5

\* now.setZone(timezone): the local hour and the local calendar day
LocalHour(instant, tz) == (instant + tz) % HoursPerDay
LocalDay(instant, tz) == (instant + tz) \div HoursPerDay

\* shouldSendDigest: local.hour === 7
ShouldSendDigest(instant, tz) == LocalHour(instant, tz) = DigestHour

\* lastSent.hasSame(now.setZone(user.tz), "day")
HasSameDay(lastSent, instant, tz) ==
  LocalDay(lastSent, tz) = LocalDay(instant, tz)

\* the newest digest row of the user (order by sent_at descending, limit
\* 1), 0 without one
LastDigest(digests, u) ==
  LET rows == {i \in DOMAIN digests : digests[i].user_id = u}
  IN IF rows = {} THEN 0
     ELSE CHOOSE i \in rows :
            \A j \in rows : digests[j].sent_at <= digests[i].sent_at

\* the invite table of the sweeps, in created_at order: an invite of u1
\* shared with u2, an invite of u2, an invite of u1 shared with u2 whose
\* parsed does not pass InviteSchema; each pending or approved
DigestInvites(statuses) ==
  <<[user_id |-> "u1", gmail_thread_id |-> "t1", gmail_message_id |-> "m1",
     shared_user_ids |-> <<"u2">>, status |-> statuses[1],
     invite_id |-> "1A", summary |-> "s1", schemaOk |-> TRUE,
     created_at |-> 1],
    [user_id |-> "u2", gmail_thread_id |-> "t2", gmail_message_id |-> "m2",
     shared_user_ids |-> <<>>, status |-> statuses[2],
     invite_id |-> "2B", summary |-> "s2", schemaOk |-> TRUE,
     created_at |-> 2],
    [user_id |-> "u1", gmail_thread_id |-> "t3", gmail_message_id |-> "m3",
     shared_user_ids |-> <<"u2">>, status |-> statuses[3],
     invite_id |-> "3C", summary |-> "s3", schemaOk |-> FALSE,
     created_at |-> 3]>>

\* select ... eq(status, pending).or(user_id.eq, shared_user_ids.cs)
\* .order(created_at), then the rows whose parsed passes InviteSchema
ParsedInvites(store, u) ==
  LET participates(row) ==
        /\ row.status = "pending"
        /\ (row.user_id = u \/ u \in Range(row.shared_user_ids))
      parses(row) == row.schemaOk
  IN SelectSeq(SelectSeq(store, participates), parses)

\* buildDigestBody: the header line of each invite (the letter of its index)
\* and the items pushed, in the order of the invites
BuildDigestBody(parsedInvites) ==
  [text |-> [k \in DOMAIN parsedInvites |->
               HeaderLetter(k - 1) \o <<".", " ">>
                 \o <<parsedInvites[k].invite_id>>],
   items |-> [k \in DOMAIN parsedInvites |->
                [invite_id |-> parsedInvites[k].invite_id,
                 gmail_thread_id |-> parsedInvites[k].gmail_thread_id,
                 gmail_message_id |-> parsedInvites[k].gmail_message_id,
                 created_at |-> parsedInvites[k].created_at,
                 summary |-> parsedInvites[k].summary]]]

\* BodySchema of the sweep: dryRun, userId, now
DigestBodies ==
  [dryRun : BOOLEAN, userId : {"all", "u2"}, now : Instants]

NoBody == [text |-> <<>>, items |-> <<>>]

InitDigest ==
  /\ cred = [u \in Users |-> [needs_reauth |-> FALSE, last_history_id |-> 0]]
  /\ tokenStore = [u \in Users |-> [access |-> 0, refresh |-> 1]]
  /\ refreshVault = {"u1"}
  /\ invites \in {DigestInvites(st) :
                    st \in [{1, 2, 3} -> {"pending", "approved"}]}
  /\ mailbox = [u \in Users |-> <<>>]
  /\ pass = [p \in Procs |-> IdlePass]
  /\ notified = [u \in Users |-> 0]
  /\ faults = 0
  /\ passes = 0
  /\ reauths = 0
  /\ processed = {}
  /\ lab = [stage |-> "idle", sweeps |-> 0, dryRun |-> FALSE, now |-> 0,
            queue |-> <<>>, digest |-> <<>>, delivered |-> <<>>,
            parsedInvites |-> <<>>, digestBody |-> NoBody, status |-> 0,
            sent |-> 0]

\* the handler up to its loop: the users are loaded and filtered
SendDigestHandler(body) ==
  /\ lab.stage = "idle"
  /\ lab.sweeps < MaxSweeps
  /\ \E usersError \in BOOLEAN :
       LET keep(u) == body.userId = "all" \/ body.userId = u
           filteredUsers == SelectSeq(SortedUsers, keep)
       IN /\ IF usersError THEN Fault ELSE NoFault
          /\ lab' = [lab EXCEPT
                       !.sweeps = @ + 1, !.dryRun = body.dryRun,
                       !.now = body.now, !.sent = 0,
                       !.parsedInvites = <<>>, !.digestBody = NoBody,
                       !.stage = IF usersError THEN "idle" ELSE "loop",
                       !.queue = IF usersError THEN <<>> ELSE filteredUsers,
                       !.status = IF usersError THEN 500 ELSE 200]
  /\ UNCHANGED <<cred, tokenStore, refreshVault, invites, mailbox, pass,
                 notified, passes, reauths, processed>>

\* one turn of the loop: the hour gate, the last-digest guard, the invites,
\* the body, and outside a dry run the delivery followed by the insert of
\* the digest row; a failure of a read, of the delivery or of the insert
\* goes on to the next user
DigestNextUser ==
  /\ lab.stage = "loop"
  /\ \E failure \in {"none", "lastDigest", "invites", "delivery", "insert"} :
       LET u == Head(lab.queue)
           rest == Tail(lab.queue)
           tz == TzOffset(u)
           last == LastDigest(lab.digest, u)
           guarded == /\ last # 0
                      /\ HasSameDay(lab.digest[last].sent_at, lab.now, tz)
           asked == ShouldSendDigest(lab.now, tz)
           loaded == asked /\ failure # "lastDigest" /\ ~guarded
           parsedInvites == IF loaded /\ failure # "invites"
                            THEN ParsedInvites(invites, u) ELSE <<>>
           built == parsedInvites # <<>>
           digestBody == BuildDigestBody(parsedInvites)
           delivers == built /\ ~lab.dryRun /\ failure # "delivery"
           inserts == delivers /\ failure # "insert"
       IN /\ IF failure = "none" THEN NoFault ELSE Fault
          /\ failure = "lastDigest" => asked
          /\ failure = "invites" => loaded
          /\ failure \in {"delivery", "insert"} => built /\ ~lab.dryRun
          /\ lab' = [lab EXCEPT
                       !.queue = rest,
                       !.stage = IF rest = <<>> THEN "idle" ELSE "loop",
                       !.parsedInvites = parsedInvites,
                       !.digestBody = IF built THEN digestBody ELSE NoBody,
                       !.delivered =
                          IF delivers
                          THEN Append(@, [user_id |-> u, at |-> lab.now])
                          ELSE @,
                       !.digest =
                          IF inserts
                          THEN Append(@, [user_id |-> u, sent_at |-> lab.now,
                                          items |-> digestBody.items])
                          ELSE @,
                       !.sent = IF built /\ (lab.dryRun \/ inserts)
                                THEN @ + 1 ELSE @]
  /\ UNCHANGED <<cred, tokenStore, refreshVault, invites, mailbox, pass,
                 notified, passes, reauths, processed>>

NextDigest ==
  \/ \E body \in DigestBodies : SendDigestHandler(body)
  \/ DigestNextUser

SpecDigest == InitDigest /\ [][NextDigest]_vars

\* ---------------------------------------------------- auth_callback
\* the partner link of the OAuth callback: app_user.partner_user_id of the
\* user who consents and of the user named in the state
MaxCallbacks == 3   \* callbacks in one behaviour

LinkUsers == {"u1", "u2", "u3"}

InitLink ==
  /\ InitSync
  /\ lab = [stage |-> "link", callbacks |-> 0,
            partner_user_id |-> [u \in LinkUsers |-> NoUser],
            failed |-> FALSE]

\* update({partner_user_id: oauthState.partnerUserId}).eq("id", userId),
\* then update({partner_user_id: userId}).eq("id", partnerUserId); an error
\* of either is thrown
LinkPartner(rows, userId, partnerUserId, failure) ==
  LET linked == IF failure = "partnerLink" THEN rows
                ELSE [rows EXCEPT ![userId] = partnerUserId]
  IN IF failure # "none" THEN linked
     ELSE [linked EXCEPT ![partnerUserId] = userId]

\* authCallbackHandler for a user, with a state that names a partner or not
AuthCallbackLink(userId, partnerUserId) ==
  /\ lab.stage = "link"
  /\ lab.callbacks < MaxCallbacks
  /\ \E failure \in {"none", "partnerLink", "reciprocalLink"} :
       /\ IF failure = "none" THEN NoFault ELSE Fault
       /\ failure # "none" => partnerUserId # NoUser
       /\ lab' = [lab EXCEPT
                    !.callbacks = @ + 1,
                    !.failed = @ \/ failure # "none",
                    !.partner_user_id =
                       IF partnerUserId = NoUser THEN @
                       ELSE LinkPartner(@, userId, partnerUserId, failure)]
  /\ UNCHANGED <<cred, tokenStore, refreshVault, invites, mailbox, pass,
                 notified, passes, reauths, processed>>

\* the invite link of a user is followed by another user
NextLink ==
  \E userId \in LinkUsers :
    \E partnerUserId \in (LinkUsers \ {userId}) \cup {NoUser} :
      AuthCallbackLink(userId, partnerUserId)

SpecLink == InitLink /\ [][NextLink]_vars

\* ---- C1
\* C1 as stated, its second sentence: whatever passes run, no step moves a
\* persisted cursor back to an older watermark.
C1_CursorNeverMovesBack ==
  [][\A u \in Users :
       cred'[u].last_history_id >= cred[u].last_history_id]_vars

\* ---- C2
\* C2 as stated: in every reachable state, whatever the interleaving of the
\* passes, the invite table holds at most one row per gmail_thread_id.
C2_OneInvitePerThread ==
  \A i, j \in DOMAIN invites :
    invites[i].gmail_thread_id = invites[j].gmail_thread_id => i = j

\* ---- C3
\* C3: while a pass processes again a ref whose processing already inserted
\* or merged, no step changes the invite table (no row added, no
\* shared_user_ids changed), and no shared_user_ids holds an entry twice.
C3_ReplayChangesNothing ==
  /\ [](\A i \in DOMAIN invites :
          Len(invites[i].shared_user_ids) =
            Cardinality(Range(invites[i].shared_user_ids)))
  /\ [][(\E p \in Procs : Replaying(p)) => invites' = invites]_vars

\* a ref whose first processing merged into the thread's invite is processed
\* again and has reached the look-up of the thread's invite
C3_Witness ==
  \E p \in Procs :
    /\ Replaying(p)
    /\ pass[p].pc = "relatedCheck"
    /\ RowsByMessage(invites, CurMsg(p)) = {}

\* ---- C4
\* C4 as stated: two candidates of one thread processed in the order a, b and
\* in the order b, a from the same starting store leave the same set of
\* shared_user_ids on the thread's invite.
C4_SameSharedEitherOrder ==
  lab.stage = "done" =>
    ThreadShared(lab.ab, "t1") = ThreadShared(lab.ba, "t1")

\* C4, amended: the two orders leave the thread's invite visible to the same
\* users (its owner together with its shared_user_ids), and they leave the
\* same shared_user_ids whenever the thread's invite was already in the
\* starting store.
C4_SameVisibilityEitherOrder ==
  lab.stage = "done" =>
    /\ ThreadVisible(lab.ab, "t1") = ThreadVisible(lab.ba, "t1")
    /\ RowsByThread(lab.store, "t1") # {} =>
         ThreadShared(lab.ab, "t1") = ThreadShared(lab.ba, "t1")

\* two partnered users' candidates, the thread's invite already stored, and
\* the merges have added to its shared_user_ids
C4_Witness ==
  /\ lab.stage = "done"
  /\ lab.a.user # lab.b.user
  /\ RowsByThread(lab.store, "t1") # {}
  /\ ThreadShared(lab.ab, "t1") # ThreadShared(lab.store, "t1")

\* ---- C5
\* C5 as stated: after any step, every invite's shared_user_ids is a superset
\* of what it was before the step.
C5_SharedOnlyGrows ==
  [][\A i \in DOMAIN invites :
       Range(invites[i].shared_user_ids) \subseteq
         Range(invites'[i].shared_user_ids)]_vars

\* ---- C6
\* C6 as stated: of the flagReauth calls made after the refresh exchange was
\* permanently rejected, only one that finds needs_reauth false performs the
\* write and the notification; the call that comes second finds it true and
\* does neither.
C6_SecondFlagReauthNoOps ==
  [][\A p \in Procs :
       /\ pass[p].pc = "flagWrite" /\ pass[p].ctx = "refresh"
       /\ notified'[CurUser(p)] # notified[CurUser(p)]
       => ~cred[CurUser(p)].needs_reauth]_vars

\* ---- C7
\* C7 as stated: no pass performs the refresh exchange for a credential
\* whose needs_reauth is true.
C7_NoRefreshOnceFlagged ==
  [][\A p \in Procs :
       pass[p].pc = "refresh" /\ pass'[p] # pass[p] =>
         ~cred[CurUser(p)].needs_reauth]_vars

\* ---- C8
\* C8: needs_reauth changes from true to false only in a step of the auth
\* callback that leaves the credential with a refresh token; no step of a
\* poll pass clears it.
C8_ClearedOnlyByCallback ==
  [][\A u \in Users :
       cred[u].needs_reauth /\ ~cred'[u].needs_reauth =>
         /\ reauths' = reauths + 1
         /\ u \in refreshVault'
         /\ pass' = pass]_vars

\* a pass that was under way when the flag was set has written the
\* credential row (its cursor) and the flag is still set
C8_Witness ==
  \E p \in Procs :
    /\ pass[p].pc = "userEnd" /\ pass[p].outcome = "ok"
    /\ Cursor(p) # pass[p].startCursor
    /\ cred[CurUser(p)].needs_reauth

\* ---- C9
\* C9 as stated: when the change-stream call made after the refresh returns
\* 401 again, the user's pass ends with needs_reauth true and the cursor
\* unchanged.
C9_Second401FlagsReauth ==
  \A p \in Procs :
    pass[p].pc = "userEnd" /\ pass[p].outcome = "unauthorized" =>
      /\ cred[CurUser(p)].needs_reauth
      /\ Cursor(p) = pass[p].startCursor

\* ---- C10
\* C10: in one pass of one credential at most one refresh exchange follows a
\* 401, whatever the number of 401 responses; every provider call is made
\* with a token in hand, and the calls made after the refresh carry the token
\* that refresh stored.
ProviderPcs == {"history", "backfill", "profile", "fetchMessage"}

C10_OneRefreshPer401 ==
  \A p \in Procs :
    /\ pass[p].refreshes401 <= 1
    /\ pass[p].pc \in ProviderPcs => pass[p].access # 0
    /\ pass[p].pc = "history" /\ pass[p].attempt = 2 =>
         /\ pass[p].refreshes401 = 1
         /\ pass[p].access = tokenStore[CurUser(p)].access

\* a pass that refreshed after a 401 has drained the change stream and is
\* fetching messages
C10_Witness ==
  \E p \in Procs :
    pass[p].pc = "fetchMessage" /\ pass[p].refreshes401 = 1

\* ---- C11
\* C11 as stated: a pass whose change-stream fetch answered 404, on the first
\* attempt or on the retry after a refresh, with or without backfill, and
\* which no further failure (of the backfill listing or of the profile fetch)
\* ended, has fetched no message and leaves the cursor at the baseline it
\* fetched.
C11_CursorInvalidRebaselines ==
  \A p \in Procs :
    /\ pass[p].pc = "userEnd"
    /\ pass[p].histStatus = "404"
    /\ pass[p].outcome # "failed"
    => /\ pass[p].outcome = "reset"
       /\ pass[p].attempted = 0
       /\ Cursor(p) = pass[p].baseline

\* ---- C12
\* the paging session of the pass p fetched its last page
Drained(p) == pass[p].histStatus = "200" /\ pass[p].pc # "history"

\* the step changes the persisted cursor of u, and p is the pass that does it
WritesCursor(p, u) ==
  /\ pass[p].pc \in {"cursorWrite", "profile"}
  /\ CurUser(p) = u
  /\ pass'[p] # pass[p]
  /\ cred'[u].last_history_id # cred[u].last_history_id

\* the step is a page fetch of the pass p that fails with an error other
\* than 401 or 404: it ends the user's pass as failed, no message fetched,
\* and writes nothing to the credential rows
PageFailureAborts(p) ==
  /\ pass[p].pc = "history"
  /\ pass'[p] # pass[p]
  /\ pass'[p].histStatus = "500"
  => /\ pass'[p].pc = "userEnd"
     /\ pass'[p].outcome = "failed"
     /\ pass'[p].attempted = 0
     /\ cred' = cred

\* C12 as stated, its first sentence: the persisted cursor is written only by
\* a pass whose paging session drained every page.
C12_WrittenOnlyAfterDrain ==
  [][\A u \in Users, p \in Procs : WritesCursor(p, u) => Drained(p)]_vars

\* C12, amended: the persisted cursor is written only by a pass whose paging
\* session drained every page or by the re-baseline of a pass whose
\* change-stream fetch answered 404; a page failure other than 401 or 404
\* (on a later page too) aborts the user's pass with no message fetched and
\* the cursor unwritten.
C12_WrittenAfterDrainOrReset ==
  [][/\ \A p \in Procs : PageFailureAborts(p)
     /\ \A u \in Users :
          cred'[u].last_history_id # cred[u].last_history_id =>
            \E p \in Procs :
              /\ WritesCursor(p, u)
              /\ \/ Drained(p)
                 \/ pass[p].pc = "profile" /\ pass[p].histStatus = "404"]_vars

\* a later page failed after an earlier page of the same paging session had
\* been fetched, and the pass has ended
C12_Witness ==
  \E p \in Procs :
    /\ pass[p].pc = "userEnd" /\ pass[p].histStatus = "500"
    /\ pass[p].maxWm > 0 /\ pass[p].refreshes401 = 0

\* ---- C13
\* the steps of the message loop
MessagePcs == {"fetchMessage"} \cup LoopPcs

\* C13: whatever a step of the message loop meets (a failing message fetch,
\* thread fallback, extraction, digest-reply forward or store call, or none),
\* the pass stays at the ref, moves to the next ref of the same ref set, or,
\* at the last ref only, leaves the loop for the cursor write or the normal
\* end of the user's pass: no ref is left unattempted.
C13_FailureSkipsOneRef ==
  [][\A p \in Procs :
       pass[p].pc \in MessagePcs /\ pass'[p] # pass[p] =>
         IF pass'[p].pc \in MessagePcs
         THEN /\ pass'[p].historyMessages = pass[p].historyMessages
              /\ \/ pass'[p].idx = pass[p].idx /\ pass'[p].pc \in LoopPcs
                 \/ /\ pass'[p].idx = pass[p].idx + 1
                    /\ pass'[p].pc = "fetchMessage"
         ELSE /\ pass[p].idx = Len(pass[p].historyMessages)
              /\ pass'[p].attempted = Len(pass[p].historyMessages)
              /\ \/ pass'[p].pc = "cursorWrite"
                 \/ pass'[p].pc = "userEnd" /\ pass'[p].outcome = "ok"]_vars

\* the forward of a digest reply failed, and the pass is at the next ref
C13_Witness ==
  \E p \in Procs :
    /\ pass[p].pc = "fetchMessage" /\ pass[p].idx = 2
    /\ pass[p].msgError = "forward"

\* ---- C14
\* C14 as stated: a 401 from the message fetch or from the thread fetch of one
\* ref is not turned into a skip; it ends the user's pass.
C14_AuthExpiredEndsPass ==
  \A p \in Procs :
    pass[p].msgError \in {"401", "thread401"} =>
      pass[p].pc = "userEnd" /\ pass[p].outcome = "unauthorized"

\* ---- C15
\* C15 as stated: no step changes the status of an invite that is approved or
\* declined.
C15_DecidedIsTerminal ==
  [][\A i \in DOMAIN invites :
       invites[i].status \in {"approved", "declined"} =>
         invites'[i].status = invites[i].status]_vars

\* ---- C16
\* C16: a reply that updates a pending invite leaves it approved on yes,
\* declined on no and pending on maybe, and leaves as its notes the notes of
\* the reply, on a maybe too; every status is pending, approved or declined.
C16_PendingFollowsDecision ==
  /\ [](\A i \in DOMAIN invites :
          invites[i].status \in {"pending", "approved", "declined"})
  /\ [][\A i \in DOMAIN invites :
         /\ invites[i].status = "pending"
         /\ lab'.code = "200" /\ lab'.row = i
         => /\ lab'.decision = "yes" => invites'[i].status = "approved"
            /\ lab'.decision = "no" => invites'[i].status = "declined"
            /\ lab'.decision = "maybe" => invites'[i].status = "pending"
            /\ invites'[i].notes = lab'.notes]_vars

\* a maybe was processed for a pending invite whose notes it replaced
C16_Witness ==
  /\ lab.stage = "reply" /\ lab.code = "200" /\ lab.decision = "maybe"
  /\ lab.replies >= 2
  /\ invites[lab.row].status = "pending"
  /\ invites[lab.row].notes = "n2"

\* ---- C17
\* the mapping was reconstructed from the items of a digest row
Reconstructed ==
  lab.stage \in {"context", "resolved"} /\ lab.digest /\ lab.items.array

\* every item is one buildDigestBody pushed: an object with the parsed
\* invite_id, a string of at least one character
BuiltByDigest(items) ==
  \A k \in DOMAIN items.list :
    /\ items.list[k].object /\ items.list[k].hasId
    /\ Len(items.list[k].invite_id) >= 1

\* C17 as stated: for the items of a digest built from 0, 1 or 26 invites,
\* the letter of position k, resolved against the mapping reconstructed from
\* the items, is exactly the invite_id of the item at position k.
C17_LetterRoundTrip ==
  /\ lab.stage = "resolved" /\ Reconstructed
  /\ BuiltByDigest(lab.items)
  /\ Len(lab.items.list) \in {0, 1, 26}
  => \A k \in DOMAIN lab.items.list :
       lab.ref = <<Upper[k]>> =>
         lab.resolved = lab.items.list[k].invite_id

\* ---- C18
\* the resolver of the claim: (a) the key equal to the reference whatever the
\* case, (b) a single letter by its capital, (c) the form "Invite <letter>"
\* by its letter, (d) the reference itself
ReferenceResolver(reference, mapping) ==
  LET exact == {k \in DOMAIN mapping :
                  ToUpperCase(k) = ToUpperCase(reference)}
      letter == <<UpperChar(reference[Len(reference)])>>
  IN IF exact # {} THEN mapping[CHOOSE k \in exact : TRUE]
     ELSE IF Len(reference) = 1 /\ IsLetter(reference[1])
             /\ letter \in DOMAIN mapping
     THEN mapping[letter]
     ELSE IF MatchesInvitePrefix(reference) /\ letter \in DOMAIN mapping
     THEN mapping[letter]
     ELSE reference

\* C18 as stated: resolveInviteId gives what the resolver of the claim gives
\* for the reference as received, a reference no strategy matches coming
\* back exactly as given.
C18_ResolverAsStated ==
  lab.stage = "resolved" =>
    lab.resolved = ReferenceResolver(lab.ref, lab.mapping)

\* C18, amended: resolveInviteId gives what the resolver of the claim gives
\* for the reference without its surrounding white space, a reference no
\* strategy matches coming back without its surrounding white space.
C18_ResolverOnTrimmed ==
  lab.stage = "resolved" =>
    lab.resolved = ReferenceResolver(Trim(lab.ref), lab.mapping)

\* the stored mapping gives the key "INVITE C" and the key "C" different
\* values, no item is at position C, and "Invite C" was resolved by the
\* exact lookup
C18_Witness ==
  /\ lab.stage = "resolved" /\ Reconstructed
  /\ lab.ref = <<"I", "n", "v", "i", "t", "e", " ", "C">>
  /\ {<<"C">>, InviteKey(<<"C">>)} \subseteq DOMAIN lab.mapping
  /\ lab.mapping[<<"C">>] # lab.mapping[InviteKey(<<"C">>)]
  /\ lab.resolved = lab.mapping[InviteKey(<<"C">>)]

\* ---- C19
\* the stored mapping as a map, and the item's own invite_id ("" without)
StoredMap == NormalizeStored(<<>>, lab.stored)
OwnInviteId(item) ==
  IF item.object /\ item.hasId THEN Trim(item.invite_id) ELSE <<>>

\* C19 as stated: every key of the stored mapping has its stored value in
\* the reconstructed mapping, also at a position whose item carries its own
\* invite_id.
C19_StoredKeysKeepValue ==
  Reconstructed =>
    \A i \in DOMAIN lab.stored :
      /\ lab.stored[i].key \in DOMAIN lab.mapping
      /\ lab.mapping[lab.stored[i].key] = lab.stored[i].value

\* C19, amended: the two keys of a position, <letter> and "INVITE <letter>",
\* have one value: the item's own invite_id (trimmed) when it carries one,
\* else the stored value of <letter>, else the stored value of
\* "INVITE <letter>", else the letter; a stored key of no position keeps its
\* stored value.  <letter> is the key the reconstruction gives the position.
C19_OwnIdThenStored ==
  Reconstructed =>
    /\ \A k \in DOMAIN lab.items.list :
         LET letter == ItemLetter(k - 1)
             own == OwnInviteId(lab.items.list[k])
             value == IF own # <<>> THEN own
                      ELSE IF letter \in DOMAIN StoredMap
                      THEN StoredMap[letter]
                      ELSE IF InviteKey(letter) \in DOMAIN StoredMap
                      THEN StoredMap[InviteKey(letter)]
                      ELSE letter
         IN /\ lab.mapping[letter] = value
            /\ lab.mapping[InviteKey(letter)] = value
    /\ \A key \in DOMAIN StoredMap :
         (\A k \in DOMAIN lab.items.list :
            key \notin {ItemLetter(k - 1), InviteKey(ItemLetter(k - 1))})
         => lab.mapping[key] = StoredMap[key]

\* two items without an invite_id of their own, the stored mapping defines
\* "A" and a key beyond the items, and both have their stored values
C19_Witness ==
  /\ Reconstructed
  /\ Len(lab.items.list) = 2
  /\ OwnInviteId(lab.items.list[1]) = <<>>
  /\ {<<"A">>, InviteKey(<<"C">>)} \subseteq DOMAIN StoredMap
  /\ lab.mapping[<<"A">>] = StoredMap[<<"A">>]
  /\ lab.mapping[InviteKey(<<"C">>)] = StoredMap[InviteKey(<<"C">>)]

\* ---- C21
\* the capital letters A..Z as references
CapitalLetters == {<<Upper[i]>> : i \in DOMAIN Upper}

\* the keys the reconstruction derived from the item positions: those of the
\* mapping that the stored mapping does not define
DerivedKeys == DOMAIN lab.mapping \ DOMAIN StoredMap

\* C21: whatever the number of items of the digest, the letter the digest
\* builder heads an item with and the key the reconstruction gives it are one
\* capital letter A..Z, the k-th letter of the alphabet for the k-th item, and
\* every key derived from a position is such a letter or "INVITE <letter>".
C21_LettersAreAToZ ==
  Reconstructed /\ lab.items.array =>
    /\ \A k \in 1..Len(lab.items.list) :
         /\ HeaderLetter(k - 1) \in CapitalLetters
         /\ ItemLetter(k - 1) \in CapitalLetters
         /\ k <= Len(Upper) =>
              /\ HeaderLetter(k - 1) = <<Upper[k]>>
              /\ <<Upper[k]>> \in DOMAIN lab.mapping
    /\ DerivedKeys \subseteq
         CapitalLetters \cup {InviteKey(l) : l \in CapitalLetters}

\* ---- C22
\* the step of p is a refresh exchange or a provider call of the sync step
\* (a change-stream page, the backfill search, the profile fetch) that fails
\* with a transient error
SyncCallFailsTransiently(p) ==
  pass[p].transient = "none" /\ pass'[p].transient # "none"

\* the step of p is the fetch of one message that fails with a transient
\* error
MessageFetchFailsTransiently(p) ==
  /\ pass[p].pc = "fetchMessage"
  /\ pass'[p].attempted = pass[p].attempted + 1
  /\ pass'[p].msgError = "fetch"

\* the error ends the user's pass and nothing is written
EndsPassUnchanged(p) ==
  /\ pass'[p].pc = "userEnd"
  /\ pass'[p].outcome = "failed"
  /\ cred' = cred
  /\ notified' = notified

\* C22 as stated: every refresh exchange or provider call that fails with a
\* transient error ends the user's pass, and needs_reauth, the notifications
\* and the cursor are as before.
C22_TransientEndsPass ==
  [][\A p \in Procs :
       SyncCallFailsTransiently(p) \/ MessageFetchFailsTransiently(p)
         => EndsPassUnchanged(p)]_vars

\* C22, amended: a transient failure of the refresh exchange or of a
\* provider call of the sync step ends the user's pass with nothing written;
\* a transient failure of the fetch of one message writes nothing and leaves
\* the pass running or ended normally.
C22_TransientSyncCallEndsPass ==
  [][\A p \in Procs :
       /\ SyncCallFailsTransiently(p) => EndsPassUnchanged(p)
       /\ MessageFetchFailsTransiently(p) =>
            /\ pass'[p].outcome # "failed"
            /\ cred' = cred
            /\ notified' = notified]_vars

\* a pass from a cursor an earlier pass wrote ended on a transient failure of
\* the refresh exchange, the cursor as it was
C22_Witness ==
  \E p \in Procs :
    /\ pass[p].pc = "userEnd"
    /\ pass[p].transient = "refresh"
    /\ pass[p].outcome = "failed"
    /\ pass[p].startCursor > 0
    /\ Cursor(p) = pass[p].startCursor
    /\ ~cred[CurUser(p)].needs_reauth

\* ---- C23
\* C23: after a refresh that succeeded, the store holds the access token of
\* the response, and as refresh token the one the response issued when the
\* provider rotated it and else the one stored before; the stored refresh
\* token is not empty, and the pair returned is the pair stored.
C23_RefreshPersistsPair ==
  lab.stage = "refresh" /\ lab.code = "ok" =>
    LET stored == tokenStore[lab.user]
    IN /\ stored.access = lab.response["access_token"]
       /\ stored.refresh = IF "refresh_token" \in DOMAIN lab.response
                           THEN lab.response["refresh_token"]
                           ELSE lab.before.refresh
       /\ stored.refresh # 0
       /\ lab.returned = stored

\* ---- C24
\* a pass of a user that began with the cursor null, met no failure, was no
\* dry run and no backfill, and has ended
EndOfFirstPass(p) ==
  /\ pass[p].pc = "userEnd"
  /\ pass[p].outcome = "ok"
  /\ pass[p].startCursor = 0
  /\ faults = 0
  /\ ~pass[p].dryRun
  /\ ~pass[p].backfill

\* the refs the provider returned to the pass: those before its watermark
PassRefs(p) == SubSeq(mailbox[CurUser(p)], 1, pass[p].maxWm - 1)

\* the extraction of the message has a reference id, a title and a summary
HasAllFields(m) ==
  /\ ParseInvite(m).invite_id # ""
  /\ ParseInvite(m).title # ""
  /\ ParseInvite(m).summary # ""

\* the invites of the user the pass is for; those of other users were there
\* when the pass began
OwnRows(p) == {i \in DOMAIN invites : invites[i].user_id = CurUser(p)}
OtherRows(p) == DOMAIN invites \ OwnRows(p)

\* the k-th ref is one an invite is to be created for: its extraction is
\* complete, and neither its message id nor its thread had an invite, from
\* before the pass or from an earlier ref of the pass
ToCreate(p, k) ==
  LET refs == PassRefs(p)
      m == refs[k]
  IN /\ HasAllFields(m)
     /\ \A i \in OtherRows(p) :
          /\ invites[i].gmail_message_id # m
          /\ invites[i].gmail_thread_id # MsgThread(m)
     /\ \A j \in 1..(k - 1) :
          ~(HasAllFields(refs[j]) /\ MsgThread(refs[j]) = MsgThread(m))

\* C24: at the end of a pass from the null cursor, the user's invites are
\* exactly one for each ref with a complete extraction whose message id and
\* thread had no invite; no invite is of a ref with an incomplete
\* extraction, the step that finds an extraction incomplete leaves the
\* invites alone and ends the ref, and the cursor is the watermark the
\* provider returned.
C24_InvitesForCompleteNewRefs ==
  /\ [](\A p \in Procs : EndOfFirstPass(p) =>
          LET created == {PassRefs(p)[k] :
                            k \in {j \in DOMAIN PassRefs(p) : ToCreate(p, j)}}
          IN /\ {invites[i].gmail_message_id : i \in OwnRows(p)} = created
             /\ Cardinality(OwnRows(p)) = Cardinality(created)
             /\ \A i \in DOMAIN invites :
                  HasAllFields(invites[i].gmail_message_id)
             /\ Cursor(p) = pass[p].maxWm)
  /\ [][\A p \in Procs :
         pass[p].pc = "fetchMessage" /\ pass'[p] # pass[p]
           /\ ~HasAllFields(CurMsg(p))
         => invites' = invites /\ pass'[p].pc \notin LoopPcs]_vars

\* scenario A: the pass got two refs, m1 and m3 whose extraction lacks the
\* title; there is exactly one invite, and the cursor is the watermark
C24_Witness ==
  \E p \in Procs :
    /\ EndOfFirstPass(p)
    /\ Range(PassRefs(p)) = {"m1", "m3"}
    /\ Len(invites) = 1
    /\ invites[1].gmail_message_id = "m1"
    /\ Cursor(p) = 3

\* ---- C25
\* the step of p writes the merge into an invite of the thread that the
\* user's partner owns and that was shared with nobody
PartnerMerges(p) ==
  /\ pass[p].pc = "mergeWrite"
  /\ invites' # invites
  /\ invites[pass[p].relatedId].user_id = Partner(CurUser(p))
  /\ invites[pass[p].relatedId].shared_user_ids = <<>>

\* C25: when the partner P of the owner processes a candidate on the thread
\* of an invite shared with nobody, the invite's shared_user_ids are exactly
\* [P] afterwards, whoever the message's recipients are, and the thread
\* still has exactly one invite.
C25_PartnerMergeSharesPartner ==
  [][\A p \in Procs :
       PartnerMerges(p) =>
         /\ invites'[pass[p].relatedId].shared_user_ids = <<CurUser(p)>>
         /\ Cardinality(RowsByThread(invites', MsgThread(CurMsg(p)))) = 1]_vars

\* ---- C26
\* the five facts the routing is stated on
DraftOrChat ==
  \E l \in {"DRAFT", "CHAT"} : l \in lab.labelIds \cup lab.messageLabelIds
DigestMarker == lab.isDigestReply \/ lab.isDigestRecipient
SelfSent == lab.isFromUser
SentLabel == "SENT" \in lab.labelIds \cup lab.messageLabelIds
HasText == lab.parts # {}

SyncStepDone ==
  \/ lab.stage = "merged"
  \/ lab.stage = "synced" /\ lab.backfillDays = 0

\* C27: the ref set the sync step produced, with or without the backfill,
\* has no ref whose message id is its thread id, no ref labeled DRAFT or
\* CHAT, and at most one entry for a message id.
C27_RefSetIsFiltered ==
  SyncStepDone =>
    /\ \A i \in DOMAIN lab.historyMessages :
         LET ref == lab.historyMessages[i]
         IN /\ ref.id # ref.threadId
            /\ "DRAFT" \notin ref.labelIds
            /\ "CHAT" \notin ref.labelIds
    /\ \A i, j \in DOMAIN lab.historyMessages :
         lab.historyMessages[i].id = lab.historyMessages[j].id => i = j

\* ---- C28
\* the positions of the thread's messages with the SENT label
SentPositions == {i \in DOMAIN lab.thread : "SENT" \in lab.thread[i].labelIds}

\* C28: after a not-found of the message fetch, the content used is that of
\* the thread's message with the requested id when there is one, otherwise
\* that of the most recent message of the thread labeled SENT; the ref is
\* skipped when there is neither, and when the thread fetch fails.
C28_FallbackIdThenNewestSent ==
  /\ lab.outcome = "fallback" =>
       IF \E i \in DOMAIN lab.thread : lab.thread[i].id = lab.messageId
       THEN lab.used = lab.messageId
       ELSE /\ SentPositions # {}
            /\ \E i \in SentPositions :
                 /\ \A j \in SentPositions : j <= i
                 /\ lab.used = lab.thread[i].id
  /\ lab.outcome = "missing" =>
       /\ \A i \in DOMAIN lab.thread : lab.thread[i].id # lab.messageId
       /\ SentPositions = {}
  /\ lab.outcome \in {"missing", "threadFailed"} => lab.stage = "skipped"

\* ---- C29
\* the users whose credential was eligible when the handler loaded them, in
\* user order
EligibleAtStart ==
  SelectSeq(SortedUsers,
            LAMBDA u : /\ ~lab.credAtStart[u].needs_reauth
                       /\ lab.body.userId \in {"all", u})

\* C29: whatever each user's pass did (returned, flagged the user for
\* reauth, threw), the handler has attempted every credential eligible at
\* its start, in user order, when it responds, and responds with success and
\* the count of users; its response is an error exactly when the load of the
\* credentials or of the users failed.  While the loop runs, the users
\* attempted are the first of the eligible ones.
C29_EveryEligibleUserAttempted ==
  /\ lab.stage = "responded" =>
       /\ lab.status = 500 <=> lab.loadFailure # "none"
       /\ lab.status = 200 =>
            /\ lab.attempted = EligibleAtStart
            /\ lab.usersProcessed = Len(EligibleAtStart)
  /\ lab.stage = "loop" =>
       /\ Len(lab.attempted) < Len(EligibleAtStart)
       /\ lab.attempted = SubSeq(EligibleAtStart, 1, Len(lab.attempted))

\* the pass of the first user threw on an auth failure, the second user was
\* attempted all the same, and the response is a success
C29_Witness ==
  /\ lab.stage = "responded"
  /\ lab.status = 200
  /\ lab.attempted = <<"u1", "u2">>
  /\ lab.outcomes[1] = "unauthorized"
  /\ lab.usersProcessed = 2

\* ---- C30
\* the status a decision stands for
StatusOf(decision) ==
  CASE decision = "yes" -> "approved"
    [] decision = "no" -> "declined"
    [] decision = "maybe" -> "pending"

\* C30: a reply applied right after the same reply (the same user, invite
\* reference, decision and notes) leaves the invite table as it is; and every
\* reply applied, whatever was applied before, leaves the invite with its
\* own status and notes, the invite's other fields and the other invites
\* unchanged.
C30_SinkIsIdempotent ==
  [][lab'.code = "200" =>
       /\ lab'.same => invites' = invites /\ lab'.row = lab.row
       /\ invites' =
            [invites EXCEPT ![lab'.row].status = StatusOf(lab'.decision),
                            ![lab'.row].notes = lab'.notes]]_vars

\* the same reply was applied twice, and then stands
C30_Witness ==
  /\ lab.stage = "reply" /\ lab.code = "200" /\ lab.same
  /\ lab.decision = "no" /\ lab.notes = "n1"
  /\ invites[lab.row].status = "declined"
  /\ invites[lab.row].notes = "n1"

\* ---- C31
\* C31: a reply that gets as far as the lookup and whose invite reference
\* matches no invite of the replying user changes no invite, and its
\* response is a success, not an error.
C31_UnknownInviteIsNoOp ==
  [][(/\ lab'.code \notin {"502", "500", "dry"}
      /\ LookupInvite(invites, lab'.ref[1], lab'.ref[2]) = 0)
       => invites' = invites /\ ResponseOk(lab'.code)]_vars

\* ---- C32
\* C32: the digest body built for a list of invites has one item for each
\* invite, in the order of the invites; the item at position i (from 0)
\* carries the letter chr(65 + i), and the body's letterMapping maps that
\* letter and "INVITE <letter>" to the invite's id.
C32_BodyHasLettersAndMapping ==
  lab.digestBody # NoBody =>
    LET digestBody == lab.digestBody
        given == lab.parsedInvites
    IN /\ Len(digestBody.items) = Len(given)
       /\ "letterMapping" \in DOMAIN digestBody
       /\ \A k \in DOMAIN given :
            LET item == digestBody.items[k]
                letter == <<Upper[k]>>
            IN /\ item.invite_id = given[k].invite_id
               /\ "letter" \in DOMAIN item
               /\ item.letter = letter
               /\ letter \in DOMAIN digestBody.letterMapping
               /\ digestBody.letterMapping[letter] = given[k].invite_id
               /\ InviteKey(letter) \in DOMAIN digestBody.letterMapping
               /\ digestBody.letterMapping[InviteKey(letter)]
                    = given[k].invite_id

\* ---- C33
\* C33: whatever sweeps ran (repeated within the hour, or with the insert of
\* the digest row failing), no user was delivered two digests on one
\* calendar day of the user's timezone, and every digest was delivered at
\* the user's local hour 7.
C33_OneDigestPerLocalDay ==
  /\ \A i, j \in DOMAIN lab.delivered :
       (/\ lab.delivered[i].user_id = lab.delivered[j].user_id
        /\ LocalDay(lab.delivered[i].at, TzOffset(lab.delivered[i].user_id))
             = LocalDay(lab.delivered[j].at,
                        TzOffset(lab.delivered[j].user_id)))
         => i = j
  /\ \A i \in DOMAIN lab.delivered :
       LocalHour(lab.delivered[i].at, TzOffset(lab.delivered[i].user_id)) = 7

\* ---- C34
\* C34: in every state, no invite lists its own owner among its
\* shared_user_ids.
C34_OwnerNotShared ==
  \A i \in DOMAIN invites :
    invites[i].user_id \notin Range(invites[i].shared_user_ids)

\* ---- C35
\* C35: while the request being served carries dryRun = true, whatever its
\* userId and backfillDays, no step inserts an invite or changes an invite's
\* shared_user_ids.
C35_DryRunRequestWritesNoInvite ==
  [][lab.json.dryRun => invites' = invites]_vars

\* ---- C36
\* a dry run of a user that met no failure and has ended
EndOfDryPass(p) ==
  /\ pass[p].pc = "userEnd"
  /\ pass[p].outcome = "ok"
  /\ pass[p].dryRun
  /\ faults = 0

\* the position of the ref the pass is at in the user's mailbox
RefPosition(p) ==
  CHOOSE k \in DOMAIN mailbox[CurUser(p)] : mailbox[CurUser(p)][k] = CurMsg(p)

\* C36: at the end of a dry run the persisted cursor is the watermark the
\* provider returned to it, as at the end of a real pass; and a pass without
\* backfill fetches only refs at or after the cursor it began with and
\* before its watermark, so that the refs a dry run saw are not fetched by
\* the pass after it.
C36_DryRunPersistsCursor ==
  /\ [](\A p \in Procs : EndOfDryPass(p) => Cursor(p) = pass[p].maxWm)
  /\ [][\A p \in Procs :
         pass[p].pc = "fetchMessage" /\ pass'[p] # pass[p]
           /\ ~pass[p].backfill
         => /\ FirstRecord(pass[p].startCursor) <= RefPosition(p)
            /\ RefPosition(p) < pass[p].maxWm]_vars

\* m1 was seen by a dry run only (the cursor is past it and it has no
\* invite); a real pass that began at that cursor has ended without
\* fetching a ref
C36_Witness ==
  \E p \in Procs :
    /\ pass[p].pc = "userEnd" /\ pass[p].outcome = "ok"
    /\ ~pass[p].dryRun /\ ~pass[p].backfill
    /\ CurUser(p) = "u1"
    /\ faults = 0
    /\ mailbox["u1"] = <<"m1">>
    /\ pass[p].startCursor = 2
    /\ pass[p].attempted = 0
    /\ Cursor(p) = 2
    /\ invites = <<>>

\* ---- C37
\* the pass of a user has ended, its paging session drained and the
\* processing of its last ref failed
EndedAfterFailedRef(p) ==
  /\ pass[p].pc = "userEnd"
  /\ pass[p].histStatus = "200"
  /\ pass[p].msgError # "none"

\* C37: a pass whose paging session drained and whose last ref failed (its
\* fetch, its thread fallback, its extraction, the forward of a digest reply
\* or a store call) ends normally, and when that was the only failure the
\* persisted cursor is the watermark the provider returned; a pass without
\* backfill that ends normally attempted exactly the refs from the cursor it
\* began with up to its watermark, so the ref that failed is not among the
\* refs of the pass after it.
C37_CursorAdvancesPastFailedRef ==
  \A p \in Procs :
    /\ EndedAfterFailedRef(p) =>
         /\ pass[p].outcome = "ok"
         /\ faults = 1 => Cursor(p) = pass[p].maxWm
    /\ (/\ pass[p].pc = "userEnd" /\ pass[p].outcome = "ok"
        /\ pass[p].histStatus = "200" /\ ~pass[p].backfill)
         => pass[p].attempted
              = pass[p].maxWm - FirstRecord(pass[p].startCursor)

\* the fetch of m1, the only ref, failed; the cursor went from null to the
\* watermark and no invite was inserted
C37_Witness ==
  \E p \in Procs :
    /\ EndedAfterFailedRef(p)
    /\ pass[p].msgError = "fetch"
    /\ faults = 1
    /\ CurUser(p) = "u1"
    /\ mailbox["u1"] = <<"m1">>
    /\ pass[p].startCursor = 0
    /\ pass[p].attempted = 1
    /\ Cursor(p) = 2
    /\ invites = <<>>

\* ---- C38
\* C38: a step sets needs_reauth of a user, or sends the user's reauth
\* notification, only in a pass whose refresh exchange the provider rejected
\* for good or while the user's stored refresh token is absent; a pass that
\* could not read the token store does neither.
C38_FlaggedOnlyWhenAbsentOrRejected ==
  [][\A u \in Users :
       (\/ cred'[u].needs_reauth /\ ~cred[u].needs_reauth
        \/ notified'[u] # notified[u])
       => \E p \in Procs :
            /\ pass[p].pc = "flagWrite"
            /\ CurUser(p) = u
            /\ \/ pass[p].ctx = "refresh"
               \/ tokenStore[u].refresh = 0]_vars

\* ---- C39
\* C39: a reply changes only status and notes, and only of invites owned by
\* the user of the reply; a reply whose reference matches no invite the user
\* owns (one shared with the user, or one of another user) changes no
\* invite.
C39_OnlyOwnerRepliesChange ==
  [][/\ DOMAIN invites' = DOMAIN invites
     /\ \A i \in DOMAIN invites :
          invites'[i] # invites[i] =>
            /\ invites[i].user_id = lab'.ref[1]
            /\ invites'[i] = [invites[i] EXCEPT
                                !.status = invites'[i].status,
                                !.notes = invites'[i].notes]
     /\ (\A i \in DOMAIN invites :
           invites[i].invite_id = lab'.ref[2] =>
             invites[i].user_id # lab'.ref[1])
         => invites' = invites]_vars

\* u2 replied to the reference of an invite that u1 owns and shares with
\* u2; the reply found no invite
C39_Witness ==
  /\ lab.stage = "reply" /\ lab.code = "404"
  /\ lab.ref = <<"u2", "2B">>
  /\ \E i \in DOMAIN invites :
       /\ invites[i].invite_id = "2B"
       /\ invites[i].user_id = "u1"
       /\ "u2" \in Range(invites[i].shared_user_ids)
       /\ invites[i].status = "pending"

\* ---- C40
\* C40: as long as every callback succeeded, the partner relation is
\* symmetric: a user whose partner_user_id is Y is the partner_user_id of Y.
C40_PartnerLinkSymmetric ==
  ~lab.failed =>
    \A x \in LinkUsers :
      lab.partner_user_id[x] # NoUser =>
        lab.partner_user_id[lab.partner_user_id[x]] = x

====
